---- MODULE Spec2Model ----
(***************************************************************************)
(* Model of the FSMgine runtime: the machine core (FSM<TEvent>), its       *)
(* transitions and the builder commits, as implemented in                  *)
(* include/FSMgine/FSM.hpp, Transition.hpp and FSMBuilder.hpp.             *)
(*                                                                         *)
(* Callbacks (predicates, transition actions, on-enter and on-exit         *)
(* actions) are opaque callables.  Invoking one appends an entry to the    *)
(* log of the enclosing API call; the entry records which callable ran     *)
(* (list and position), the event it received and the value of             *)
(* current_state_ at the moment of the invocation.  Callbacks return       *)
(* normally; they do not call back into the machine, except in the section *)
(* on the callback that does.                                              *)
(***************************************************************************)
EXTENDS Integers, Sequences, FiniteSets, TLC

VARIABLES
    states_,            \* registry: state name -> StateData
    current_state_,     \* name of the current state ("" until set)
    has_initial_state_, \* the "initialized" flag
    lastCall,           \* observation of the most recent public call
    mutex_,             \* owner of the machine's mutex (thread-safe build)
    pc,                 \* per thread: position inside its current call
    frame,              \* per thread: arguments and locals of its call
    interned_strings_,  \* StringInterner: the stored strings, each with its address
    interner_mutex_,    \* StringInterner: owner of its mutex (thread-safe build)
    returned,           \* StringInterner: the handles intern() has returned
    counter,            \* stress test: the shared atomic counter the actions increment
    calls,              \* stress test: per thread, the process calls issued
    trace,              \* scenario test: event, result and state of each process call
    fsms,               \* move test: the FSM objects fsm1, fsm2, fsm3
    owner               \* move test: the object the machine has been moved to

vars == <<states_, current_state_, has_initial_state_, lastCall, mutex_, pc, frame,
          interned_strings_, interner_mutex_, returned, counter, calls, trace,
          fsms, owner>>

\* the variables of the test harnesses
stressVars == <<counter, calls, trace>>

internerVars == <<interned_strings_, interner_mutex_, returned>>

moveVars == <<fsms, owner>>

----------------------------------------------------------------------------
(* Bounds and input alphabets *)

\* total number of definitions (transitions + non-null callables) a machine holds
MaxDefs == 4

\* the empty string / a default-constructed std::string_view
Empty == ""

\* state names handed to from(), onEnter(), onExit()
StateNames == {"A", "B"}

\* state names handed to to(), setInitialState(), setCurrentState()
CallNames == StateNames \cup {Empty}

Events == {0, 1}

\* static const TEvent dummy_event{}
DefaultEvent == 0

\* an empty std::function
NullFn == "null"

\* predicate callables: "is1" returns true for event 1 and false otherwise
PredKinds == {"is1"}
PredInputs == PredKinds \cup {NullFn}
ActionInputs == {"fn", NullFn}

\* the guards of the traffic light, [&](const auto&) { return timer >= n; }
\* for an event-less machine the event argument of the model carries the
\* value of the captured timer at the time of the call
TimerAtLeast == [ge3 |-> 3, ge5 |-> 5, ge2 |-> 2]

\* pred(event) for a stored predicate: "is0" is e == 0, "is1" is e == 1
PredCall(pred, event) ==
    \/ (pred = "is1" /\ event = 1)
    \/ (pred = "is0" /\ event = 0)
    \/ (pred \in DOMAIN TimerAtLeast /\ event >= TimerAtLeast[pred])

\* sequences over S of length at most n
BSeq(S, n) == UNION {[1..k -> S] : k \in 0..n}

----------------------------------------------------------------------------
(* Transition<TEvent> *)

\* Transition() = default
NewTransition == [predicates_ |-> <<>>, actions_ |-> <<>>, target_state_ |-> Empty]

\* variant: every predicate is invoked, whatever the earlier ones returned
PredsInvokedAll(tr, event) == Len(tr.predicates_)

\* variant: addPredicate without the null check
addPredicateUnchecked(tr, pred) == [tr EXCEPT !.predicates_ = Append(@, pred)]

\* Transition::addPredicate: a null predicate is ignored
addPredicate(tr, pred) ==
    IF pred # NullFn THEN [tr EXCEPT !.predicates_ = Append(@, pred)] ELSE tr

\* Transition::addAction: a null action is ignored; a stored action is
\* identified by its position in the list
addAction(tr, action) ==
    IF action # NullFn THEN [tr EXCEPT !.actions_ = Append(@, Len(@) + 1)] ELSE tr

\* Transition::setTargetState
setTargetState(tr, state) == [tr EXCEPT !.target_state_ = state]

\* Transition::hasTargetState
hasTargetState(tr) == tr.target_state_ # Empty

\* number of predicates Transition::predicatesPass invokes: it stops at the
\* first predicate returning false
PredsInvoked(tr, event) ==
    LET failing == {i \in 1..Len(tr.predicates_) : ~PredCall(tr.predicates_[i], event)}
    IN IF failing = {} THEN Len(tr.predicates_)
       ELSE CHOOSE i \in failing : \A j \in failing : i <= j

\* variant: the predicates are not consulted
predicatesPassAlways(tr, event) == TRUE

\* Transition::predicatesPass
predicatesPass(tr, event) ==
    IF tr.predicates_ = <<>> THEN TRUE
    ELSE \A i \in 1..Len(tr.predicates_) : PredCall(tr.predicates_[i], event)

LogEntry(kind, state, t, i, event, cur) ==
    [kind |-> kind, state |-> state, trans |-> t, idx |-> i, ev |-> event, cur |-> cur]

\* the predicate invocations of one predicatesPass call on transition t of state
PredLog(tr, state, t, event) ==
    [i \in 1..PredsInvoked(tr, event) |-> LogEntry("pred", state, t, i, event, state)]

\* variant: the actions run last added first
executeActionsReversed(tr, state, t, event) ==
    [i \in 1..Len(tr.actions_) |->
        LogEntry("action", state, t, tr.actions_[Len(tr.actions_) + 1 - i], event, state)]

\* variant: only the first action of the transition runs
executeActionsFirstOnly(tr, state, t, event) ==
    [i \in 1..(IF tr.actions_ = <<>> THEN 0 ELSE 1) |->
        LogEntry("action", state, t, tr.actions_[i], event, state)]

\* Transition::executeActions: every action, in order
executeActions(tr, state, t, event) ==
    [i \in 1..Len(tr.actions_) |-> LogEntry("action", state, t, tr.actions_[i], event, state)]

----------------------------------------------------------------------------
(* FSM<TEvent> helpers *)

\* StateData() = default
NewStateData == [on_enter_actions |-> <<>>, on_exit_actions |-> <<>>, transitions |-> <<>>]

\* variant: the state's data is replaced by a default-constructed one
getOrCreateStateFresh(reg, state) ==
    [s \in DOMAIN reg \cup {state} |-> IF s = state THEN NewStateData ELSE reg[s]]

\* FSM::getOrCreateState: the registry with the state present
getOrCreateState(reg, state) ==
    IF state \in DOMAIN reg THEN reg
    ELSE [s \in DOMAIN reg \cup {state} |-> IF s = state THEN NewStateData ELSE reg[s]]

\* FSM::executeOnExitActions, called while current_state_ = cur
executeOnExitActions(reg, state, event, cur) ==
    IF state \in DOMAIN reg
    THEN [i \in 1..Len(reg[state].on_exit_actions) |->
             LogEntry("exit", state, 0, reg[state].on_exit_actions[i], event, cur)]
    ELSE <<>>

\* variant: every on-enter action is invoked twice
executeOnEnterActionsTwice(reg, state, event, cur) ==
    IF state \in DOMAIN reg
    THEN [i \in 1..(2 * Len(reg[state].on_enter_actions)) |->
             LogEntry("enter", state, 0, reg[state].on_enter_actions[(i + 1) \div 2], event, cur)]
    ELSE <<>>

\* FSM::executeOnEnterActions, called while current_state_ = cur
executeOnEnterActions(reg, state, event, cur) ==
    IF state \in DOMAIN reg
    THEN [i \in 1..Len(reg[state].on_enter_actions) |->
             LogEntry("enter", state, 0, reg[state].on_enter_actions[i], event, cur)]
    ELSE <<>>


----------------------------------------------------------------------------
(* FSM<TEvent> public operations, as functions of the machine's fields *)

\* variant: every fired transition is treated as a state change
StateChangesAlways(cur, target) == TRUE

\* the test "current_state_ != target_state" guarding the exit/enter actions
StateChanges(cur, target) == cur # target

\* variant: the state is left and entered before the transition's actions run
FireTransitionExitFirst(reg, cur, tr, t, event, log) ==
    IF tr.target_state_ = Empty
    THEN [ret |-> "FSMInvalidStateError", current |-> cur, log |-> log]
    ELSE IF tr.target_state_ \notin DOMAIN reg
    THEN [ret |-> "FSMStateNotFoundError", current |-> cur, log |-> log]
    ELSE IF StateChanges(cur, tr.target_state_)
    THEN [ret |-> "true", current |-> tr.target_state_,
          log |-> log \o executeOnExitActions(reg, cur, event, cur)
                      \o executeOnEnterActions(reg, tr.target_state_, event,
                                               tr.target_state_)
                      \o executeActions(tr, cur, t, event)]
    ELSE [ret |-> "true", current |-> cur, log |-> log \o executeActions(tr, cur, t, event)]

\* variant: the target is validated after the transition's actions and the
\* on-exit actions have run
FireTransitionLateCheck(reg, cur, tr, t, event, log) ==
    LET alog == log \o executeActions(tr, cur, t, event)
        xlog == alog \o executeOnExitActions(reg, cur, event, cur)
    IN IF tr.target_state_ = Empty
       THEN [ret |-> "FSMInvalidStateError", current |-> cur, log |-> xlog]
       ELSE IF tr.target_state_ \notin DOMAIN reg
       THEN [ret |-> "FSMStateNotFoundError", current |-> cur, log |-> xlog]
       ELSE IF StateChanges(cur, tr.target_state_)
       THEN [ret |-> "true", current |-> tr.target_state_,
             log |-> xlog \o executeOnEnterActions(reg, tr.target_state_, event,
                                                   tr.target_state_)]
       ELSE [ret |-> "true", current |-> cur, log |-> alog]

\* FSM::process, body of the loop for a transition whose predicates passed
FireTransition(reg, cur, tr, t, event, log) ==
    IF tr.target_state_ = Empty
    THEN [ret |-> "FSMInvalidStateError", current |-> cur, log |-> log]
    ELSE IF tr.target_state_ \notin DOMAIN reg
    THEN [ret |-> "FSMStateNotFoundError", current |-> cur, log |-> log]
    ELSE LET alog == log \o executeActions(tr, cur, t, event)
         IN IF StateChanges(cur, tr.target_state_)
            THEN [ret |-> "true", current |-> tr.target_state_,
                  log |-> alog \o executeOnExitActions(reg, cur, event, cur)
                               \o executeOnEnterActions(reg, tr.target_state_, event,
                                                        tr.target_state_)]
            ELSE [ret |-> "true", current |-> cur, log |-> alog]

\* variant: the end of the loop reports a transition
NoMatchReportsTrue(cur, log) == [ret |-> "true", current |-> cur, log |-> log]

\* FSM::process, the "return false" after the loop
NoMatch(cur, log) == [ret |-> "false", current |-> cur, log |-> log]

\* variant: the last matching transition wins instead of the first
ScanTransitionsLastWins(reg, cur, t, event, log) ==
    LET matching == {u \in t..Len(reg[cur].transitions) :
                        predicatesPass(reg[cur].transitions[u], event)}
    IN IF matching = {} THEN NoMatch(cur, log)
       ELSE LET u == CHOOSE x \in matching : \A y \in matching : y <= x
                tr == reg[cur].transitions[u]
            IN FireTransition(reg, cur, tr, u, event, log \o PredLog(tr, cur, u, event))

\* FSM::process, the loop over state_data.transitions from position t on
RECURSIVE ScanTransitions(_, _, _, _, _)
ScanTransitions(reg, cur, t, event, log) ==
    IF t > Len(reg[cur].transitions)
    THEN NoMatch(cur, log)
    ELSE LET tr == reg[cur].transitions[t]
             plog == log \o PredLog(tr, cur, t, event)
         IN IF predicatesPass(tr, event)
            THEN FireTransition(reg, cur, tr, t, event, plog)
            ELSE ScanTransitions(reg, cur, t + 1, event, plog)

\* position at which the loop of FSM::process stops: the first transition of
\* cur whose predicates pass, 0 if the loop runs to its end
FirstPassing(reg, cur, event) ==
    LET passing == {t \in 1..Len(reg[cur].transitions) :
                       predicatesPass(reg[cur].transitions[t], event)}
    IN IF passing = {} THEN 0
       ELSE CHOOSE t \in passing : \A u \in passing : t <= u

\* FSM::process
processImpl(reg, cur, init, event) ==
    IF ~init
    THEN [ret |-> "FSMNotInitializedError", current |-> cur, log |-> <<>>]
    ELSE IF cur \notin DOMAIN reg
    THEN [ret |-> "FSMStateNotFoundError", current |-> cur, log |-> <<>>]
    ELSE ScanTransitions(reg, cur, 1, event, <<>>)

\* variant: setInitialState leaves the previous current state through its on-exit actions
setInitialStateImplExits(reg, cur, init, state) ==
    IF state \notin DOMAIN reg
    THEN [ret |-> "FSMInvalidStateError", current |-> cur, init |-> init, log |-> <<>>]
    ELSE [ret |-> "ok", current |-> state, init |-> TRUE,
          log |-> (IF init /\ cur # state
                   THEN executeOnExitActions(reg, cur, DefaultEvent, cur) ELSE <<>>)
                  \o executeOnEnterActions(reg, state, DefaultEvent, state)]

\* variant: setInitialState does not look the state up in the registry
setInitialStateImplUnchecked(reg, cur, init, state) ==
    [ret |-> "ok", current |-> state, init |-> TRUE,
     log |-> executeOnEnterActions(reg, state, DefaultEvent, state)]

\* variant: the initial state is set without running its on-enter actions
setInitialStateImplNoEnter(reg, cur, init, state) ==
    IF state \notin DOMAIN reg
    THEN [ret |-> "FSMInvalidStateError", current |-> cur, init |-> init, log |-> <<>>]
    ELSE [ret |-> "ok", current |-> state, init |-> TRUE, log |-> <<>>]

\* FSM::setInitialState
setInitialStateImpl(reg, cur, init, state) ==
    IF state \notin DOMAIN reg
    THEN [ret |-> "FSMInvalidStateError", current |-> cur, init |-> init, log |-> <<>>]
    ELSE [ret |-> "ok", current |-> state, init |-> TRUE,
          log |-> executeOnEnterActions(reg, state, DefaultEvent, state)]

\* variant: setCurrentState refuses a machine that was never initialized
setCurrentStateImplRequiresInit(reg, cur, init, state) ==
    IF ~init
    THEN [ret |-> "FSMNotInitializedError", current |-> cur, init |-> init, log |-> <<>>]
    ELSE IF state \notin DOMAIN reg
    THEN [ret |-> "FSMInvalidStateError", current |-> cur, init |-> init, log |-> <<>>]
    ELSE [ret |-> "ok", current |-> state, init |-> TRUE,
          log |-> (IF cur # state THEN executeOnExitActions(reg, cur, DefaultEvent, cur) ELSE <<>>)
                  \o executeOnEnterActions(reg, state, DefaultEvent, state)]

\* variant: the new state is entered before the old one is left
setCurrentStateImplEnterFirst(reg, cur, init, state) ==
    IF state \notin DOMAIN reg
    THEN [ret |-> "FSMInvalidStateError", current |-> cur, init |-> init, log |-> <<>>]
    ELSE LET xlog == IF init /\ cur # state
                     THEN executeOnExitActions(reg, cur, DefaultEvent, state)
                     ELSE <<>>
         IN [ret |-> "ok", current |-> state, init |-> TRUE,
             log |-> executeOnEnterActions(reg, state, DefaultEvent, state) \o xlog]

\* variant: the state is not looked up in the registry
setCurrentStateImplUnchecked(reg, cur, init, state) ==
    LET xlog == IF init /\ cur # state
                THEN executeOnExitActions(reg, cur, DefaultEvent, cur)
                ELSE <<>>
    IN [ret |-> "ok", current |-> state, init |-> TRUE,
        log |-> xlog \o executeOnEnterActions(reg, state, DefaultEvent, state)]

\* variant: forcing the state that is already current does nothing
setCurrentStateImplSkipSame(reg, cur, init, state) ==
    IF state \notin DOMAIN reg
    THEN [ret |-> "FSMInvalidStateError", current |-> cur, init |-> init, log |-> <<>>]
    ELSE IF init /\ cur = state
    THEN [ret |-> "ok", current |-> cur, init |-> init, log |-> <<>>]
    ELSE [ret |-> "ok", current |-> state, init |-> TRUE,
          log |-> (IF init THEN executeOnExitActions(reg, cur, DefaultEvent, cur) ELSE <<>>)
                  \o executeOnEnterActions(reg, state, DefaultEvent, state)]

\* FSM::setCurrentState
setCurrentStateImpl(reg, cur, init, state) ==
    IF state \notin DOMAIN reg
    THEN [ret |-> "FSMInvalidStateError", current |-> cur, init |-> init, log |-> <<>>]
    ELSE LET xlog == IF init /\ cur # state
                     THEN executeOnExitActions(reg, cur, DefaultEvent, cur)
                     ELSE <<>>
         IN [ret |-> "ok", current |-> state, init |-> TRUE,
             log |-> xlog \o executeOnEnterActions(reg, state, DefaultEvent, state)]

\* variant: the current state is returned without the initialization check
getCurrentStateImplUnchecked(cur, init) == [ret |-> "ok", val |-> cur]

\* FSM::getCurrentState
getCurrentStateImpl(cur, init) ==
    IF ~init THEN [ret |-> "FSMNotInitializedError", val |-> Empty]
    ELSE [ret |-> "ok", val |-> cur]

\* variant: the transition is stored in front of the state's transitions
addTransitionImplFront(reg, from_state, tr) ==
    LET withFrom == getOrCreateState(reg, from_state)
        withBoth == IF tr.target_state_ # Empty
                    THEN getOrCreateState(withFrom, tr.target_state_)
                    ELSE withFrom
    IN [withBoth EXCEPT ![from_state].transitions = <<tr>> \o @]

\* variant: the target of the transition is not registered
addTransitionImplTargetUnregistered(reg, from_state, tr) ==
    [getOrCreateState(reg, from_state) EXCEPT ![from_state].transitions = Append(@, tr)]

\* FSM::addTransition
addTransitionImpl(reg, from_state, tr) ==
    LET withFrom == getOrCreateState(reg, from_state)
        withBoth == IF tr.target_state_ # Empty
                    THEN getOrCreateState(withFrom, tr.target_state_)
                    ELSE withFrom
    IN [withBoth EXCEPT ![from_state].transitions = Append(@, tr)]

\* FSM::addOnEnterAction
addOnEnterActionImpl(reg, state, action) ==
    LET r == getOrCreateState(reg, state)
    IN IF action # NullFn
       THEN [r EXCEPT ![state].on_enter_actions = Append(@, Len(@) + 1)]
       ELSE r

\* FSM::addOnExitAction
addOnExitActionImpl(reg, state, action) ==
    LET r == getOrCreateState(reg, state)
    IN IF action # NullFn
       THEN [r EXCEPT ![state].on_exit_actions = Append(@, Len(@) + 1)]
       ELSE r

\* TransitionBuilder::predicate / action applied to a chain of callables
RECURSIVE StagePredicates(_, _)
StagePredicates(tr, preds) ==
    IF preds = <<>> THEN tr
    ELSE StagePredicates(addPredicate(tr, Head(preds)), Tail(preds))

RECURSIVE StageActions(_, _)
StageActions(tr, actions) ==
    IF actions = <<>> THEN tr
    ELSE StageActions(addAction(tr, Head(actions)), Tail(actions))

----------------------------------------------------------------------------
(* Size of a machine definition, used to bound the model *)

RECURSIVE SumSeq(_)
SumSeq(s) == IF s = <<>> THEN 0 ELSE Head(s) + SumSeq(Tail(s))

TransitionDefs(tr) == 1 + Len(tr.predicates_) + Len(tr.actions_)

StateDefs(sd) ==
    Len(sd.on_enter_actions) + Len(sd.on_exit_actions)
    + SumSeq([t \in 1..Len(sd.transitions) |-> TransitionDefs(sd.transitions[t])])

RECURSIVE RegistryDefs(_, _)
RegistryDefs(reg, names) ==
    IF names = {} THEN 0
    ELSE LET s == CHOOSE x \in names : TRUE
         IN StateDefs(reg[s]) + RegistryDefs(reg, names \ {s})

Used == RegistryDefs(states_, DOMAIN states_)

Room == MaxDefs - Used

----------------------------------------------------------------------------
(* Observation of a call *)

Observe(op, name, event, ret, val, log) ==
    [op |-> op, name |-> name, ev |-> event, ret |-> ret, val |-> val, log |-> log,
     pre_current |-> current_state_, pre_init |-> has_initial_state_]

NoCall ==
    [op |-> "none", name |-> Empty, ev |-> DefaultEvent, ret |-> "ok", val |-> Empty,
     log |-> <<>>, pre_current |-> Empty, pre_init |-> FALSE]

\* what a caller observes of a builder commit: it returns, nothing was invoked
BuilderCall == [NoCall EXCEPT !.op = "builder"]

NoThread == "none"
Threads == {"t1", "t2"}

\* arguments, locals and result of a call in the thread-safe build
Frame(op, name, event, tr, action) ==
    [op |-> op, name |-> name, ev |-> event, tr |-> tr, action |-> action,
     sel |-> 0, ret |-> "ok", val |-> Empty, log |-> <<>>]

NoFrame == Frame("none", Empty, DefaultEvent, NewTransition, NullFn)

\* the FSM objects of the move test
Objects == {"fsm1", "fsm2", "fsm3"}

\* FSM() = default
DefaultFSM ==
    [states_ |-> <<>>, current_state_ |-> Empty, has_initial_state_ |-> FALSE, life |-> "live"]

\* an object that has not been declared yet
Unborn == [DefaultFSM EXCEPT !.life = "unborn"]

\* TestFSM fsm1; ...; TestFSM fsm3;  (fsm2 is declared by its move construction)
NoObjects == [o \in Objects |-> IF o = "fsm2" THEN Unborn ELSE DefaultFSM]

----------------------------------------------------------------------------
(* Single-threaded build: every public call runs to completion *)

Init ==
    /\ states_ = <<>>
    /\ current_state_ = Empty
    /\ has_initial_state_ = FALSE
    /\ lastCall = NoCall
    /\ mutex_ = NoThread
    /\ pc = [t \in Threads |-> "idle"]
    /\ frame = [t \in Threads |-> NoFrame]
    /\ interned_strings_ = {}
    /\ interner_mutex_ = NoThread
    /\ returned = {}
    /\ counter = 0
    /\ calls = [t \in Threads |-> 0]
    /\ trace = <<>>
    /\ fsms = NoObjects
    /\ owner = "fsm1"

\* the transitions a TransitionBuilder can hold after at most n predicate()
\* calls and n action() calls, null callables included
Staged(n) ==
    {StageActions(StagePredicates(NewTransition, ps), as) :
        ps \in BSeq(PredInputs, n), as \in BSeq(ActionInputs, n)}

\* builder.from(from_state).predicate(..)...action(..).to(target), the commit
to(from_state, staged, target) ==
    LET tr == setTargetState(staged, target)
    IN /\ TransitionDefs(tr) <= Room
       /\ states_' = addTransitionImpl(states_, from_state, tr)
       /\ lastCall' = BuilderCall
       /\ UNCHANGED <<current_state_, has_initial_state_>>

\* builder.onEnter(state, action)
onEnter(state, action) ==
    /\ action # NullFn => Room >= 1
    /\ states_' = addOnEnterActionImpl(states_, state, action)
    /\ lastCall' = BuilderCall
    /\ UNCHANGED <<current_state_, has_initial_state_>>

\* builder.onExit(state, action)
onExit(state, action) ==
    /\ action # NullFn => Room >= 1
    /\ states_' = addOnExitActionImpl(states_, state, action)
    /\ lastCall' = BuilderCall
    /\ UNCHANGED <<current_state_, has_initial_state_>>

\* fsm.setInitialState(state)
setInitialState(state) ==
    LET r == setInitialStateImpl(states_, current_state_, has_initial_state_, state)
    IN /\ current_state_' = r.current
       /\ has_initial_state_' = r.init
       /\ lastCall' = Observe("setInitialState", state, DefaultEvent, r.ret, Empty, r.log)
       /\ UNCHANGED states_

\* fsm.setCurrentState(state)
setCurrentState(state) ==
    LET r == setCurrentStateImpl(states_, current_state_, has_initial_state_, state)
    IN /\ current_state_' = r.current
       /\ has_initial_state_' = r.init
       /\ lastCall' = Observe("setCurrentState", state, DefaultEvent, r.ret, Empty, r.log)
       /\ UNCHANGED states_

\* fsm.process(event)
process(event) ==
    LET r == processImpl(states_, current_state_, has_initial_state_, event)
    IN /\ current_state_' = r.current
       /\ lastCall' = Observe("process", Empty, event, r.ret, Empty, r.log)
       /\ UNCHANGED <<states_, has_initial_state_>>

\* fsm.getCurrentState()
getCurrentState ==
    LET r == getCurrentStateImpl(current_state_, has_initial_state_)
    IN /\ lastCall' = Observe("getCurrentState", Empty, DefaultEvent, r.ret, r.val, <<>>)
       /\ UNCHANGED <<states_, current_state_, has_initial_state_>>

\* a builder commit
Commit ==
    \/ \E from_state \in StateNames, target \in CallNames :
         \E staged \in Staged(Room - 1) : to(from_state, staged, target)
    \/ \E state \in StateNames, action \in ActionInputs : onEnter(state, action)
    \/ \E state \in StateNames, action \in ActionInputs : onExit(state, action)

\* the machine compares state names by their text, so the specifications of
\* the machine leave the interner's state out
InternerIdle == UNCHANGED internerVars

\* no test harness is running
NoStress == UNCHANGED stressVars

\* the machine is not moved
NoMove == UNCHANGED moveVars

\* the thread-safe build's variables are not used
SingleThreaded == UNCHANGED <<mutex_, pc, frame>> /\ InternerIdle /\ NoStress /\ NoMove

Next ==
    \/ Commit /\ SingleThreaded
    \/ \E state \in CallNames : setInitialState(state) /\ SingleThreaded
    \/ \E state \in CallNames : setCurrentState(state) /\ SingleThreaded
    \/ \E event \in Events : process(event) /\ SingleThreaded
    \/ getCurrentState /\ SingleThreaded

Spec == Init /\ [][Next]_vars

----------------------------------------------------------------------------
(* Thread-safe build (FSMGINE_MULTI_THREADED): every public operation of   *)
(* the machine constructs a std::unique_lock on mutex_ first and releases  *)
(* it when the call returns or throws.  A call is a sequence of steps of   *)
(* the calling thread.                                                     *)

\* the machine of the concurrency test, from("A").to("B") and
\* from("B").to("A"), with an on-exit action registered on "A"
TestMachine ==
    addOnExitActionImpl(
        addTransitionImpl(
            addTransitionImpl(<<>>, "A", setTargetState(NewTransition, "B")),
            "B", setTargetState(NewTransition, "A")),
        "A", "fn")

InitMT ==
    /\ states_ = TestMachine
    /\ current_state_ = Empty
    /\ has_initial_state_ = FALSE
    /\ lastCall = NoCall
    /\ mutex_ = NoThread
    /\ pc = [t \in Threads |-> "idle"]
    /\ frame = [t \in Threads |-> NoFrame]
    /\ interned_strings_ = {}
    /\ interner_mutex_ = NoThread
    /\ returned = {}
    /\ counter = 0
    /\ calls = [t \in Threads |-> 0]
    /\ trace = <<>>
    /\ fsms = NoObjects
    /\ owner = "fsm1"

\* definitions a call will add to the machine when it commits
FrameDefs(f) ==
    IF f.op = "to" THEN TransitionDefs(f.tr)
    ELSE IF f.op \in {"onEnter", "onExit"} /\ f.action # NullFn THEN 1
    ELSE 0

\* definitions of the commits that have been called and have not yet run
Pending == SumSeq([i \in 1..2 |-> FrameDefs(frame[IF i = 1 THEN "t1" ELSE "t2"])])

\* the calls a thread can make
Calls ==
    {Frame("process", Empty, e, NewTransition, NullFn) : e \in Events}
    \cup {Frame(op, n, DefaultEvent, NewTransition, NullFn) :
             op \in {"setInitialState", "setCurrentState"}, n \in StateNames}
    \cup {Frame("getCurrentState", Empty, DefaultEvent, NewTransition, NullFn)}
    \cup {Frame("to", n, DefaultEvent, setTargetState(tr, target), NullFn) :
             n \in StateNames, target \in StateNames, tr \in Staged(Room - Pending - 1)}
    \cup {Frame(op, n, DefaultEvent, NewTransition, a) :
             op \in {"onEnter", "onExit"}, n \in StateNames, a \in ActionInputs}

\* first step in the body of each operation
Entry(op) ==
    IF op = "process" THEN "select"
    ELSE IF op \in {"to", "onEnter", "onExit"} THEN "commit"
    ELSE op

\* thread t calls an operation; it will block on the mutex
Call(t, f) ==
    /\ pc[t] = "idle"
    /\ FrameDefs(f) <= Room - Pending
    /\ pc' = [pc EXCEPT ![t] = "lock"]
    /\ frame' = [frame EXCEPT ![t] = f]
    /\ UNCHANGED <<states_, current_state_, has_initial_state_, lastCall, mutex_>>

\* variant: the build without FSMGINE_MULTI_THREADED, which takes no lock
AcquireNoLock(t) ==
    /\ pc[t] = "lock"
    /\ pc' = [pc EXCEPT ![t] = Entry(frame[t].op)]
    /\ UNCHANGED <<states_, current_state_, has_initial_state_, lastCall, mutex_, frame>>

\* std::unique_lock<std::mutex> lock(mutex_)
Acquire(t) ==
    /\ pc[t] = "lock"
    /\ mutex_ = NoThread
    /\ mutex_' = t
    /\ pc' = [pc EXCEPT ![t] = Entry(frame[t].op)]
    /\ UNCHANGED <<states_, current_state_, has_initial_state_, lastCall, frame>>

\* process: the initialization check, the lookup of the current state and the
\* scan of its transitions up to the first whose predicates pass, with the
\* validation of that transition's target
ProcessSelect(t) ==
    /\ pc[t] = "select"
    /\ LET f == frame[t]
           sel == IF has_initial_state_ THEN FirstPassing(states_, current_state_, f.ev) ELSE 0
           r == processImpl(states_, current_state_, has_initial_state_, f.ev)
           plog == SelectSeq(r.log, LAMBDA x : x.kind = "pred")
       IN IF r.ret = "true"
          THEN /\ frame' = [frame EXCEPT ![t] = [f EXCEPT !.sel = sel, !.log = plog]]
               /\ pc' = [pc EXCEPT ![t] = "actions"]
          ELSE /\ frame' = [frame EXCEPT ![t] = [f EXCEPT !.ret = r.ret, !.log = r.log]]
               /\ pc' = [pc EXCEPT ![t] = "unlock"]
    /\ UNCHANGED <<states_, current_state_, has_initial_state_, lastCall, mutex_>>

\* process: transition.executeActions(event) and the state-change test
ProcessActions(t) ==
    /\ pc[t] = "actions"
    /\ LET f == frame[t]
           tr == states_[current_state_].transitions[f.sel]
           log == f.log \o executeActions(tr, current_state_, f.sel, f.ev)
       IN IF StateChanges(current_state_, tr.target_state_)
          THEN /\ frame' = [frame EXCEPT ![t] = [f EXCEPT !.log = log, !.name = tr.target_state_]]
               /\ pc' = [pc EXCEPT ![t] = "exit"]
          ELSE /\ frame' = [frame EXCEPT ![t] = [f EXCEPT !.log = log, !.ret = "true"]]
               /\ pc' = [pc EXCEPT ![t] = "unlock"]
    /\ UNCHANGED <<states_, current_state_, has_initial_state_, lastCall, mutex_>>

\* variant: the lock is given up after the on-exit actions, before current is assigned
ProcessExitReleases(t) ==
    /\ pc[t] = "exit"
    /\ frame' = [frame EXCEPT ![t].log =
                    @ \o executeOnExitActions(states_, current_state_, frame[t].ev, current_state_)]
    /\ pc' = [pc EXCEPT ![t] = "assign"]
    /\ mutex_' = NoThread
    /\ UNCHANGED <<states_, current_state_, has_initial_state_, lastCall>>

\* process: executeOnExitActions(current_state_, event)
ProcessExit(t) ==
    /\ pc[t] = "exit"
    /\ frame' = [frame EXCEPT ![t].log =
                    @ \o executeOnExitActions(states_, current_state_, frame[t].ev, current_state_)]
    /\ pc' = [pc EXCEPT ![t] = "assign"]
    /\ UNCHANGED <<states_, current_state_, has_initial_state_, lastCall, mutex_>>

\* variant: the lock is given up once current is assigned, before the on-enter actions
ProcessAssignReleases(t) ==
    /\ pc[t] = "assign"
    /\ current_state_' = frame[t].name
    /\ pc' = [pc EXCEPT ![t] = "enter"]
    /\ mutex_' = NoThread
    /\ UNCHANGED <<states_, has_initial_state_, lastCall, frame>>

\* variant: the assignment leaves current empty
ProcessAssignEmpty(t) ==
    /\ pc[t] = "assign"
    /\ current_state_' = Empty
    /\ pc' = [pc EXCEPT ![t] = "enter"]
    /\ UNCHANGED <<states_, has_initial_state_, lastCall, mutex_, frame>>

\* process: current_state_ = target_state
ProcessAssign(t) ==
    /\ pc[t] = "assign"
    /\ current_state_' = frame[t].name
    /\ pc' = [pc EXCEPT ![t] = "enter"]
    /\ UNCHANGED <<states_, has_initial_state_, lastCall, mutex_, frame>>

\* process: executeOnEnterActions(current_state_, event); return true
ProcessEnter(t) ==
    /\ pc[t] = "enter"
    /\ frame' = [frame EXCEPT ![t].log =
                    @ \o executeOnEnterActions(states_, current_state_, frame[t].ev, current_state_),
                 ![t].ret = "true"]
    /\ pc' = [pc EXCEPT ![t] = "unlock"]
    /\ UNCHANGED <<states_, current_state_, has_initial_state_, lastCall, mutex_>>

\* the body of setInitialState
SetInitialStateBody(t) ==
    /\ pc[t] = "setInitialState"
    /\ LET r == setInitialStateImpl(states_, current_state_, has_initial_state_, frame[t].name)
       IN /\ current_state_' = r.current
          /\ has_initial_state_' = r.init
          /\ frame' = [frame EXCEPT ![t].ret = r.ret, ![t].log = r.log]
    /\ pc' = [pc EXCEPT ![t] = "unlock"]
    /\ UNCHANGED <<states_, lastCall, mutex_>>

\* the body of setCurrentState
SetCurrentStateBody(t) ==
    /\ pc[t] = "setCurrentState"
    /\ LET r == setCurrentStateImpl(states_, current_state_, has_initial_state_, frame[t].name)
       IN /\ current_state_' = r.current
          /\ has_initial_state_' = r.init
          /\ frame' = [frame EXCEPT ![t].ret = r.ret, ![t].log = r.log]
    /\ pc' = [pc EXCEPT ![t] = "unlock"]
    /\ UNCHANGED <<states_, lastCall, mutex_>>

\* the body of getCurrentState
GetCurrentStateBody(t) ==
    /\ pc[t] = "getCurrentState"
    /\ LET r == getCurrentStateImpl(current_state_, has_initial_state_)
       IN frame' = [frame EXCEPT ![t].ret = r.ret, ![t].val = r.val]
    /\ pc' = [pc EXCEPT ![t] = "unlock"]
    /\ UNCHANGED <<states_, current_state_, has_initial_state_, lastCall, mutex_>>

\* the body of addTransition, addOnEnterAction or addOnExitAction
CommitBody(t) ==
    /\ pc[t] = "commit"
    /\ LET f == frame[t]
       IN states_' = IF f.op = "to" THEN addTransitionImpl(states_, f.name, f.tr)
                     ELSE IF f.op = "onEnter" THEN addOnEnterActionImpl(states_, f.name, f.action)
                     ELSE addOnExitActionImpl(states_, f.name, f.action)
    /\ frame' = [frame EXCEPT ![t] = [@ EXCEPT !.tr = NewTransition, !.action = NullFn]]
    /\ pc' = [pc EXCEPT ![t] = "unlock"]
    /\ UNCHANGED <<current_state_, has_initial_state_, lastCall, mutex_>>

\* the call returns or throws: the unique_lock is destroyed
Release(t) ==
    /\ pc[t] = "unlock"
    /\ mutex_' = IF mutex_ = t THEN NoThread ELSE mutex_
    /\ pc' = [pc EXCEPT ![t] = "idle"]
    /\ frame' = [frame EXCEPT ![t] = NoFrame]
    /\ UNCHANGED <<states_, current_state_, has_initial_state_, lastCall>>

NextMT ==
    \E t \in Threads :
        \/ \E f \in Calls : Call(t, f) /\ InternerIdle /\ NoStress /\ NoMove
        \/ Acquire(t) /\ InternerIdle /\ NoStress /\ NoMove
        \/ ProcessSelect(t) /\ InternerIdle /\ NoStress /\ NoMove
        \/ ProcessActions(t) /\ InternerIdle /\ NoStress /\ NoMove
        \/ ProcessExit(t) /\ InternerIdle /\ NoStress /\ NoMove
        \/ ProcessAssign(t) /\ InternerIdle /\ NoStress /\ NoMove
        \/ ProcessEnter(t) /\ InternerIdle /\ NoStress /\ NoMove
        \/ SetInitialStateBody(t) /\ InternerIdle /\ NoStress /\ NoMove
        \/ SetCurrentStateBody(t) /\ InternerIdle /\ NoStress /\ NoMove
        \/ GetCurrentStateBody(t) /\ InternerIdle /\ NoStress /\ NoMove
        \/ CommitBody(t) /\ InternerIdle /\ NoStress /\ NoMove
        \/ Release(t) /\ InternerIdle /\ NoStress /\ NoMove

SpecMT == InitMT /\ [][NextMT]_vars

----------------------------------------------------------------------------
(* The fluent interface step by step: from() returns a TransitionBuilder,  *)
(* predicate() and action() stage callables in it, to() commits it, and a  *)
(* builder that goes out of scope without to() is destroyed.  The builder  *)
(* lives in the frame of the thread running the construction code.         *)

\* predicate() and action() calls staged in one builder
MaxStaged == 2

\* transitions committed through the step-by-step interface
MaxCommits == 1

\* the thread running the construction code
builder == "t1"

\* the TransitionBuilder's transition_
staged == frame[builder].tr

\* number of transitions stored in the registry
NumTransitions == SumSeq([i \in 1..2 |->
    LET s == IF i = 1 THEN "A" ELSE "B"
    IN IF s \in DOMAIN states_ THEN Len(states_[s].transitions) ELSE 0])

\* variant: from() registers the state it names
fromRegisters(state) ==
    /\ pc' = [pc EXCEPT ![builder] = "staging"]
    /\ frame' = [frame EXCEPT ![builder] = Frame("from", state, DefaultEvent, NewTransition, NullFn)]
    /\ states_' = getOrCreateState(states_, state)
    /\ UNCHANGED <<current_state_, has_initial_state_, lastCall, mutex_>>

\* builder.from(state): a new TransitionBuilder holding an empty transition
from(state) ==
    /\ pc' = [pc EXCEPT ![builder] = "staging"]
    /\ frame' = [frame EXCEPT ![builder] = Frame("from", state, DefaultEvent, NewTransition, NullFn)]
    /\ UNCHANGED <<states_, current_state_, has_initial_state_, lastCall, mutex_>>

\* .predicate(pred)
stagePredicate(pred) ==
    /\ pc[builder] = "staging"
    /\ pred # NullFn => TransitionDefs(staged) <= MaxStaged
    /\ frame' = [frame EXCEPT ![builder].tr = addPredicate(@, pred)]
    /\ UNCHANGED <<states_, current_state_, has_initial_state_, lastCall, mutex_, pc>>

\* .action(a)
stageAction(a) ==
    /\ pc[builder] = "staging"
    /\ a # NullFn => TransitionDefs(staged) <= MaxStaged
    /\ frame' = [frame EXCEPT ![builder].tr = addAction(@, a)]
    /\ UNCHANGED <<states_, current_state_, has_initial_state_, lastCall, mutex_, pc>>

\* .to(target): the staged transition is committed and the builder is spent
commitStaged(target) ==
    /\ pc[builder] = "staging"
    /\ NumTransitions < MaxCommits
    /\ to(frame[builder].name, staged, target)
    /\ pc' = [pc EXCEPT ![builder] = "idle"]
    /\ frame' = [frame EXCEPT ![builder] = NoFrame]
    /\ UNCHANGED mutex_

\* the TransitionBuilder is destroyed without to() having been called
dropStaged ==
    /\ pc[builder] = "staging"
    /\ pc' = [pc EXCEPT ![builder] = "dropped"]
    /\ frame' = [frame EXCEPT ![builder] = NoFrame]
    /\ UNCHANGED <<states_, current_state_, has_initial_state_, lastCall, mutex_>>

NextStaged ==
    \/ \E state \in StateNames : from(state) /\ InternerIdle /\ NoStress /\ NoMove
    \/ \E pred \in PredInputs : stagePredicate(pred) /\ InternerIdle /\ NoStress /\ NoMove
    \/ \E a \in ActionInputs : stageAction(a) /\ InternerIdle /\ NoStress /\ NoMove
    \/ \E target \in CallNames : commitStaged(target) /\ InternerIdle /\ NoStress /\ NoMove
    \/ dropStaged /\ InternerIdle /\ NoStress /\ NoMove
    \/ \E state \in CallNames : setInitialState(state) /\ SingleThreaded
    \/ \E event \in Events : process(event) /\ SingleThreaded
    \/ getCurrentState /\ SingleThreaded

SpecStaged == Init /\ [][NextStaged]_vars

----------------------------------------------------------------------------
(* Named TransitionBuilder objects: auto tb1 = builder.from(..); auto tb2  *)
(* = builder.from(..); each is staged and committed by later statements,   *)
(* in any order, and stays in scope after to().  The construction code    *)
(* runs before setInitialState, as in the tests.  In this section pc and   *)
(* frame hold the position and the members of each builder object, and     *)
(* trace the from() and to() calls in program order.                       *)

\* to() calls of the construction code
MaxBuilderCommits == 2

\* callables one builder object holds at a time
MaxBuilderStaged == 1

Builders == {"tb1", "tb2"}

\* the members of a TransitionBuilder: from_state_ and transition_
BuilderObject(state, tr) == [from_state_ |-> state, transition_ |-> tr]

\* what the defaulted move constructor of Transition leaves in the source: the
\* two std::vector members are empty, the std::string_view is copied
MovedFromTransition(tr) ==
    [predicates_ |-> <<>>, actions_ |-> <<>>, target_state_ |-> tr.target_state_]

\* the to() calls recorded so far
Commits == SelectSeq(trace, LAMBDA x : x.op = "to")

\* the committed transitions of one source state, in the order of their to()
CommittedFrom(state) ==
    LET own == SelectSeq(Commits, LAMBDA x : x.state = state)
    IN [i \in DOMAIN own |-> own[i].tr]

InitBuilders ==
    /\ states_ = <<>>
    /\ current_state_ = Empty
    /\ has_initial_state_ = FALSE
    /\ lastCall = NoCall
    /\ mutex_ = NoThread
    /\ pc = [b \in Builders |-> "none"]
    /\ frame = [b \in Builders |-> BuilderObject(Empty, NewTransition)]
    /\ interned_strings_ = {}
    /\ interner_mutex_ = NoThread
    /\ returned = {}
    /\ counter = 0
    /\ calls = [t \in Threads |-> 0]
    /\ trace = <<>>
    /\ fsms = NoObjects
    /\ owner = "fsm1"

BuildersIdle ==
    ~has_initial_state_ /\ UNCHANGED <<mutex_, counter, calls>> /\ InternerIdle /\ NoMove

\* auto b = builder.from(state);
BuilderFrom(b, state) ==
    /\ pc[b] = "none"
    /\ pc' = [pc EXCEPT ![b] = "open"]
    /\ frame' = [frame EXCEPT ![b] = BuilderObject(state, NewTransition)]
    /\ trace' = Append(trace, [op |-> "from", builder |-> b, state |-> state])
    /\ UNCHANGED <<states_, current_state_, has_initial_state_, lastCall>>

\* b.predicate(pred);
BuilderPredicate(b, pred) ==
    /\ pc[b] \in {"open", "committed"}
    /\ pred # NullFn => TransitionDefs(frame[b].transition_) <= MaxBuilderStaged
    /\ pc' = [pc EXCEPT ![b] = IF pred # NullFn THEN "open" ELSE @]
    /\ frame' = [frame EXCEPT ![b].transition_ = addPredicate(@, pred)]
    /\ UNCHANGED <<states_, current_state_, has_initial_state_, lastCall, trace>>

\* b.action(a);
BuilderAction(b, a) ==
    /\ pc[b] \in {"open", "committed"}
    /\ a # NullFn => TransitionDefs(frame[b].transition_) <= MaxBuilderStaged
    /\ pc' = [pc EXCEPT ![b] = IF a # NullFn THEN "open" ELSE @]
    /\ frame' = [frame EXCEPT ![b].transition_ = addAction(@, a)]
    /\ UNCHANGED <<states_, current_state_, has_initial_state_, lastCall, trace>>

\* variant: to() hands a copy of transition_ to addTransition
BuilderToCopies(b, target) ==
    /\ pc[b] \in {"open", "committed"}
    /\ Len(Commits) < MaxBuilderCommits
    /\ to(frame[b].from_state_, frame[b].transition_, target)
    /\ pc' = [pc EXCEPT ![b] = "committed"]
    /\ frame' = [frame EXCEPT ![b].transition_ = setTargetState(@, target)]
    /\ trace' = Append(trace, [op |-> "to", builder |-> b, state |-> frame[b].from_state_,
                               tr |-> setTargetState(frame[b].transition_, target)])

\* b.to(target);  transition_ is moved into the argument of addTransition and
\* the builder object lives on
BuilderTo(b, target) ==
    /\ pc[b] \in {"open", "committed"}
    /\ Len(Commits) < MaxBuilderCommits
    /\ to(frame[b].from_state_, frame[b].transition_, target)
    /\ pc' = [pc EXCEPT ![b] = "committed"]
    /\ frame' = [frame EXCEPT ![b].transition_ =
                                 MovedFromTransition(setTargetState(@, target))]
    /\ trace' = Append(trace, [op |-> "to", builder |-> b, state |-> frame[b].from_state_,
                               tr |-> setTargetState(frame[b].transition_, target)])

NextBuilders ==
    \/ \E b \in Builders, state \in StateNames : BuilderFrom(b, state) /\ BuildersIdle
    \/ \E b \in Builders, pred \in PredInputs : BuilderPredicate(b, pred) /\ BuildersIdle
    \/ \E b \in Builders, a \in ActionInputs : BuilderAction(b, a) /\ BuildersIdle
    \/ \E b \in Builders, target \in StateNames : BuilderTo(b, target) /\ BuildersIdle
    \/ \E state \in StateNames : setInitialState(state) /\ SingleThreaded
    \/ \E event \in Events : process(event) /\ SingleThreaded

SpecBuilders == InitBuilders /\ [][NextBuilders]_vars

----------------------------------------------------------------------------
(* StringInterner: a std::unordered_set<std::string> whose elements never  *)
(* move once inserted.  A stored string is a record of its text and the    *)
(* address of its characters; a handle (std::string_view) is the address   *)
(* and the text it views.  Threads call intern() concurrently; the         *)
(* lookup-or-insert is modelled in two steps, the search for an equal      *)
(* element and the linking of a new node.                                  *)

\* texts handed to intern()
Texts == {"", "a", "b"}

\* the two overloads: intern(const std::string&) and intern(std::string_view)
Overloads == {"intern_string", "intern_view"}

\* address of the characters of a newly allocated node: one no live node has
FreshAddress ==
    CHOOSE a \in 1..(Cardinality(interned_strings_) + 1) :
        \A e \in interned_strings_ : e.addr # a

\* the stored elements equal to text
Find(text) == {e \in interned_strings_ : e.text = text}

\* thread t calls intern(text) through one of the overloads
InternCall(t, overload, text) ==
    /\ pc[t] = "idle"
    /\ pc' = [pc EXCEPT ![t] = "lock"]
    /\ frame' = [frame EXCEPT ![t] = Frame(overload, text, DefaultEvent, NewTransition, NullFn)]
    /\ UNCHANGED internerVars

\* variant: the build without FSMGINE_MULTI_THREADED, which takes no lock
InternAcquireNoLock(t) ==
    /\ pc[t] = "lock"
    /\ pc' = [pc EXCEPT ![t] = "find"]
    /\ UNCHANGED <<frame, internerVars>>

\* std::lock_guard<std::mutex> lock(mutex_)
InternAcquire(t) ==
    /\ pc[t] = "lock"
    /\ interner_mutex_ = NoThread
    /\ interner_mutex_' = t
    /\ pc' = [pc EXCEPT ![t] = "find"]
    /\ UNCHANGED <<frame, interned_strings_, returned>>

\* insert / emplace, first half: search for an element equal to the text;
\* sel is the address of the element found, 0 if there is none
InternFind(t) ==
    /\ pc[t] = "find"
    /\ LET found == Find(frame[t].name)
       IN frame' = [frame EXCEPT ![t].sel =
                       IF found = {} THEN 0 ELSE (CHOOSE e \in found : TRUE).addr]
    /\ pc' = [pc EXCEPT ![t] = "insert"]
    /\ UNCHANGED internerVars

\* variant: a new node is linked whether or not an equal element exists
InternInsertAlways(t) ==
    /\ pc[t] = "insert"
    /\ interned_strings_' = interned_strings_ \cup
                               {[text |-> frame[t].name, addr |-> FreshAddress]}
    /\ frame' = [frame EXCEPT ![t].sel = FreshAddress]
    /\ pc' = [pc EXCEPT ![t] = "return"]
    /\ UNCHANGED <<interner_mutex_, returned>>

\* insert / emplace, second half: if no equal element was found a node holding
\* a copy of the text is linked into the set; `it` designates the element
InternInsert(t) ==
    /\ pc[t] = "insert"
    /\ IF frame[t].sel = 0
       THEN /\ interned_strings_' = interned_strings_ \cup
                                       {[text |-> frame[t].name, addr |-> FreshAddress]}
            /\ frame' = [frame EXCEPT ![t].sel = FreshAddress]
       ELSE UNCHANGED <<interned_strings_, frame>>
    /\ pc' = [pc EXCEPT ![t] = "return"]
    /\ UNCHANGED <<interner_mutex_, returned>>

\* return std::string_view(*it); the lock_guard is destroyed
InternReturn(t) ==
    /\ pc[t] = "return"
    /\ returned' = returned \cup
                      {[arg |-> frame[t].name,
                        data |-> frame[t].sel,
                        text |-> (CHOOSE e \in interned_strings_ : e.addr = frame[t].sel).text]}
    /\ interner_mutex_' = IF interner_mutex_ = t THEN NoThread ELSE interner_mutex_
    /\ pc' = [pc EXCEPT ![t] = "idle"]
    /\ frame' = [frame EXCEPT ![t] = NoFrame]
    /\ UNCHANGED interned_strings_

\* the machine is not involved
MachineIdle == UNCHANGED <<states_, current_state_, has_initial_state_, lastCall, mutex_>>

NextInterner ==
    \E t \in Threads :
        \/ \E overload \in Overloads, text \in Texts : InternCall(t, overload, text) /\ MachineIdle /\ NoStress /\ NoMove
        \/ InternAcquire(t) /\ MachineIdle /\ NoStress /\ NoMove
        \/ InternFind(t) /\ MachineIdle /\ NoStress /\ NoMove
        \/ InternInsert(t) /\ MachineIdle /\ NoStress /\ NoMove
        \/ InternReturn(t) /\ MachineIdle /\ NoStress /\ NoMove

SpecInterner == Init /\ [][NextInterner]_vars

----------------------------------------------------------------------------
(* Concurrent stress: every thread issues a fixed number of process calls  *)
(* on one thread-safe machine whose transitions always match and carry     *)
(* actions that increment a shared std::atomic counter.                    *)

\* k: actions carried by each transition
ActionsPerTransition == 2

\* M: process calls issued by each thread
CallsPerThread == 2

\* a transition with n more actions added
RECURSIVE WithActions(_, _)
WithActions(tr, n) == IF n = 0 THEN tr ELSE WithActions(addAction(tr, "fn"), n - 1)

\* from("A").action(..)...to("B") and from("B").action(..)...to("A"), no predicates
StressMachine ==
    addTransitionImpl(
        addTransitionImpl(<<>>, "A",
            setTargetState(WithActions(NewTransition, ActionsPerTransition), "B")),
        "B", setTargetState(WithActions(NewTransition, ActionsPerTransition), "A"))

\* the machine after setInitialState("A"), the threads not yet started
InitStress ==
    /\ states_ = StressMachine
    /\ current_state_ = setInitialStateImpl(StressMachine, Empty, FALSE, "A").current
    /\ has_initial_state_ = setInitialStateImpl(StressMachine, Empty, FALSE, "A").init
    /\ lastCall = NoCall
    /\ mutex_ = NoThread
    /\ pc = [t \in Threads |-> "idle"]
    /\ frame = [t \in Threads |-> NoFrame]
    /\ interned_strings_ = {}
    /\ interner_mutex_ = NoThread
    /\ returned = {}
    /\ counter = 0
    /\ calls = [t \in Threads |-> 0]
    /\ trace = <<>>
    /\ fsms = NoObjects
    /\ owner = "fsm1"

\* thread t issues its next process call
StressCall(t) ==
    /\ pc[t] = "idle"
    /\ calls[t] < CallsPerThread
    /\ calls' = [calls EXCEPT ![t] = @ + 1]
    /\ pc' = [pc EXCEPT ![t] = "lock"]
    /\ frame' = [frame EXCEPT ![t] = Frame("process", Empty, DefaultEvent, NewTransition, NullFn)]
    /\ UNCHANGED <<states_, current_state_, has_initial_state_, lastCall, mutex_, counter, trace>>

\* the transition's actions run: each one increments the counter
StressActions(t) ==
    /\ ProcessActions(t)
    /\ counter' = counter + (Len(frame'[t].log) - Len(frame[t].log))
    /\ UNCHANGED <<calls, trace>>

NextStress ==
    \E t \in Threads :
        \/ StressCall(t) /\ InternerIdle /\ NoMove
        \/ Acquire(t) /\ InternerIdle /\ NoStress /\ NoMove
        \/ ProcessSelect(t) /\ InternerIdle /\ NoStress /\ NoMove
        \/ StressActions(t) /\ InternerIdle /\ NoMove
        \/ ProcessExit(t) /\ InternerIdle /\ NoStress /\ NoMove
        \/ ProcessAssign(t) /\ InternerIdle /\ NoStress /\ NoMove
        \/ ProcessEnter(t) /\ InternerIdle /\ NoStress /\ NoMove
        \/ Release(t) /\ InternerIdle /\ NoStress /\ NoMove

SpecStress == InitStress /\ [][NextStress]_vars

----------------------------------------------------------------------------
(* The turnstile of the integration test: four transitions committed in a  *)
(* fixed order, setInitialState("LOCKED"), then a sequence of events.      *)

\* enum class TurnstileEvent { COIN, PUSH }
COIN == 0
PUSH == 1

\* process calls made on the turnstile
MaxEvents == 6

\* the builder chains of the test, in their order
TurnstileScript ==
    << [from_state |-> "LOCKED",   pred |-> "is0", target |-> "UNLOCKED"],
       [from_state |-> "UNLOCKED", pred |-> "is1", target |-> "LOCKED"],
       [from_state |-> "LOCKED",   pred |-> "is1", target |-> "ERROR"],
       [from_state |-> "ERROR",    pred |-> "is0", target |-> "UNLOCKED"] >>

\* number of transitions committed so far
Committed ==
    SumSeq([i \in 1..3 |->
        LET s == <<"LOCKED", "UNLOCKED", "ERROR">>[i]
        IN IF s \in DOMAIN states_ THEN Len(states_[s].transitions) ELSE 0])

\* builder.from(..).predicate(..).to(..): the next chain of the test
TurnstileCommit ==
    /\ Committed < Len(TurnstileScript)
    /\ LET c == TurnstileScript[Committed + 1]
       IN states_' = addTransitionImpl(states_, c.from_state,
                        setTargetState(addPredicate(NewTransition, c.pred), c.target))
    /\ lastCall' = BuilderCall
    /\ UNCHANGED <<current_state_, has_initial_state_>>

\* turnstile.setInitialState("LOCKED")
TurnstileStart ==
    /\ Committed = Len(TurnstileScript)
    /\ ~has_initial_state_
    /\ setInitialState("LOCKED")

\* turnstile.process(event), the result and the state after it recorded
TurnstileProcess(event) ==
    /\ has_initial_state_
    /\ Len(trace) < MaxEvents
    /\ process(event)
    /\ trace' = Append(trace, [ev |-> event, ret |-> lastCall'.ret, state |-> current_state_'])
    /\ UNCHANGED <<mutex_, pc, frame, counter, calls>>

NextTurnstile ==
    \/ TurnstileCommit /\ SingleThreaded
    \/ TurnstileStart /\ SingleThreaded
    \/ \E event \in {COIN, PUSH} : TurnstileProcess(event) /\ InternerIdle /\ NoMove

SpecTurnstile == Init /\ [][NextTurnstile]_vars

----------------------------------------------------------------------------
(* The traffic light of the integration test, an event-less machine: three *)
(* on-enter actions and three timed transitions are registered, then       *)
(* setInitialState("RED"); the timer is advanced and process() called in   *)
(* any order.  counter is the test's timer, trace its events vector (the   *)
(* name of the state stands for "red_on", "green_on", "yellow_on").        *)

\* largest value the timer is advanced to
MaxTimer == 6

\* entries the events vector may hold
MaxEnters == 7

Lights == <<"RED", "GREEN", "YELLOW">>

\* the builder calls of the test, in their order
TrafficScript ==
    << [op |-> "onEnter", state |-> "RED"],
       [op |-> "onEnter", state |-> "YELLOW"],
       [op |-> "onEnter", state |-> "GREEN"],
       [op |-> "to", state |-> "RED",    pred |-> "ge3", target |-> "GREEN"],
       [op |-> "to", state |-> "GREEN",  pred |-> "ge5", target |-> "YELLOW"],
       [op |-> "to", state |-> "YELLOW", pred |-> "ge2", target |-> "RED"] >>

\* number of builder calls made so far
TrafficBuilt ==
    SumSeq([i \in 1..3 |->
        IF Lights[i] \in DOMAIN states_
        THEN Len(states_[Lights[i]].on_enter_actions) + Len(states_[Lights[i]].transitions)
        ELSE 0])

\* what the on-enter actions invoked in a call do to the events vector and the
\* timer: events.push_back(..); timer = 0;
TrafficRecord(log) ==
    LET ran == SelectSeq(log, LAMBDA x : x.kind = "enter")
    IN /\ trace' = trace \o [i \in DOMAIN ran |-> ran[i].state]
       /\ counter' = IF ran = <<>> THEN counter ELSE 0

TrafficIdle == UNCHANGED <<mutex_, pc, frame, calls>> /\ InternerIdle /\ NoMove

\* builder.onEnter(..) or builder.from(..).predicate(..).to(..): the next call
TrafficCommit ==
    /\ TrafficBuilt < Len(TrafficScript)
    /\ LET c == TrafficScript[TrafficBuilt + 1]
       IN states_' = IF c.op = "onEnter"
                     THEN addOnEnterActionImpl(states_, c.state, "fn")
                     ELSE addTransitionImpl(states_, c.state,
                              setTargetState(addPredicate(NewTransition, c.pred), c.target))
    /\ lastCall' = BuilderCall
    /\ UNCHANGED <<current_state_, has_initial_state_, counter, trace>>

\* traffic_light.setInitialState("RED")
TrafficStart ==
    /\ TrafficBuilt = Len(TrafficScript)
    /\ ~has_initial_state_
    /\ setInitialState("RED")
    /\ TrafficRecord(lastCall'.log)

\* ++timer
TrafficTick ==
    /\ has_initial_state_
    /\ counter < MaxTimer
    /\ counter' = counter + 1
    /\ UNCHANGED <<states_, current_state_, has_initial_state_, lastCall, trace>>

\* traffic_light.process()
TrafficProcess ==
    /\ has_initial_state_
    /\ Len(trace) < MaxEnters
    /\ process(counter)
    /\ TrafficRecord(lastCall'.log)

NextTraffic ==
    \/ TrafficCommit /\ TrafficIdle
    \/ TrafficStart /\ TrafficIdle
    \/ TrafficTick /\ TrafficIdle
    \/ TrafficProcess /\ TrafficIdle

SpecTraffic == Init /\ [][NextTraffic]_vars

----------------------------------------------------------------------------
(* The code generator's own machine (src/fsmgine.cpp): a table of          *)
(* transitions scanned by execute(), one line of standard input per cycle. *)
(* In this section states_ is m_transitions_, current_state_ is            *)
(* m_current_state_, trace is standard input, counter the number of lines  *)
(* read, frame the two output files and pc the position of execute().      *)

\* lines of standard input
MaxLines == 3

\* the lines that matter to the predicates, and one other line
Lines == {"code %{", "header %{", "%}", "int x;"}

\* std::optional<std::string>
SomeLine(line) == [has_value |-> TRUE, value |-> line]
NullOpt == [has_value |-> FALSE]

m_is_code_start(s) == s.has_value /\ s.value = "code %{"
m_is_header_start(s) == s.has_value /\ s.value = "header %{"
m_is_section_end(s) == s.has_value /\ s.value = "%}"
m_is_eof(s) == ~s.has_value
m_always(s) == TRUE

\* t.predicate(input_line) for a row of the table
RowPredicate(name, s) ==
    IF name = "m_is_code_start" THEN m_is_code_start(s)
    ELSE IF name = "m_is_header_start" THEN m_is_header_start(s)
    ELSE IF name = "m_is_section_end" THEN m_is_section_end(s)
    ELSE IF name = "m_is_eof" THEN m_is_eof(s)
    ELSE m_always(s)

\* t.action(input_line): the output files afterwards
RowAction(name, s, files) ==
    IF name = "m_handle_code_line" /\ s.has_value
    THEN [files EXCEPT !.code = Append(@, s.value)]
    ELSE IF name = "m_handle_header_line" /\ s.has_value
    THEN [files EXCEPT !.header = Append(@, s.value)]
    ELSE files

Row(start, pred, action, new) ==
    [start_state |-> start, predicate |-> pred, action |-> action, new_state |-> new]

\* FSMgine::initialize_transitions
initialize_transitions ==
    << Row("IN_BETWEEN", "m_is_code_start",   "m_discard_line",       "IN_CODE"),
       Row("IN_BETWEEN", "m_is_header_start", "m_discard_line",       "IN_HEADER"),
       Row("IN_BETWEEN", "m_is_eof",          "m_discard_line",       "END"),
       Row("IN_BETWEEN", "m_always",          "m_discard_line",       "IN_BETWEEN"),
       Row("IN_CODE",    "m_is_section_end",  "m_discard_line",       "IN_BETWEEN"),
       Row("IN_CODE",    "m_always",          "m_handle_code_line",   "IN_CODE"),
       Row("IN_HEADER",  "m_is_section_end",  "m_discard_line",       "IN_BETWEEN"),
       Row("IN_HEADER",  "m_always",          "m_handle_header_line", "IN_HEADER") >>

\* the constructor has run; standard input holds any lines
InitGenerator ==
    /\ states_ = initialize_transitions
    /\ current_state_ = "IN_BETWEEN"
    /\ has_initial_state_ = TRUE
    /\ lastCall = NoCall
    /\ mutex_ = NoThread
    /\ pc = "execute"
    /\ frame = [code |-> <<>>, header |-> <<>>]
    /\ interned_strings_ = {}
    /\ interner_mutex_ = NoThread
    /\ returned = {}
    /\ counter = 0
    /\ calls = [t \in Threads |-> 0]
    /\ trace \in BSeq(Lines, MaxLines)
    /\ fsms = NoObjects
    /\ owner = "fsm1"

\* m_get_input(): the next line, std::nullopt at the end of the input
m_get_input == IF counter < Len(trace) THEN SomeLine(trace[counter + 1]) ELSE NullOpt

\* position in the table of the first row of state s whose predicate accepts
\* the line, 0 if there is none
FindRow(table, s, line) ==
    LET ok == {i \in DOMAIN table :
                 table[i].start_state = s /\ RowPredicate(table[i].predicate, line)}
    IN IF ok = {} THEN 0 ELSE CHOOSE i \in ok : \A j \in ok : i <= j

GeneratorIdle ==
    UNCHANGED <<states_, has_initial_state_, lastCall, mutex_, calls, trace>>
        /\ InternerIdle /\ NoMove

\* one cycle of the while loop of execute()
ExecuteCycle ==
    /\ pc = "execute"
    /\ current_state_ # "END"
    /\ LET input_line == m_get_input
           it == FindRow(states_, current_state_, input_line)
       IN /\ counter' = IF counter < Len(trace) THEN counter + 1 ELSE counter
          /\ IF it = 0
             THEN /\ pc' = "std::runtime_error"
                  /\ UNCHANGED <<frame, current_state_>>
             ELSE /\ frame' = RowAction(states_[it].action, input_line, frame)
                  /\ current_state_' = states_[it].new_state
                  /\ UNCHANGED pc

\* the loop condition fails and execute() returns
ExecuteReturn ==
    /\ pc = "execute"
    /\ current_state_ = "END"
    /\ pc' = "returned"
    /\ UNCHANGED <<frame, current_state_, counter>>

NextGenerator ==
    \/ ExecuteCycle /\ GeneratorIdle
    \/ ExecuteReturn /\ GeneratorIdle

SpecGenerator == InitGenerator /\ [][NextGenerator]_vars

----------------------------------------------------------------------------
(* Live editing: one thread commits definitions through the builder while  *)
(* the other thread calls process on the running machine.                  *)

\* builder commits made on the running machine
MaxLiveCommits == 1

\* from("A").to("B"), the machine the threads start with
LiveMachine == addTransitionImpl(<<>>, "A", setTargetState(NewTransition, "B"))

\* the machine after setInitialState("A"), the threads not yet started
InitLive ==
    /\ states_ = LiveMachine
    /\ current_state_ = setInitialStateImpl(LiveMachine, Empty, FALSE, "A").current
    /\ has_initial_state_ = setInitialStateImpl(LiveMachine, Empty, FALSE, "A").init
    /\ lastCall = NoCall
    /\ mutex_ = NoThread
    /\ pc = [t \in Threads |-> "idle"]
    /\ frame = [t \in Threads |-> NoFrame]
    /\ interned_strings_ = {}
    /\ interner_mutex_ = NoThread
    /\ returned = {}
    /\ counter = 0
    /\ calls = [t \in Threads |-> 0]
    /\ trace = <<>>
    /\ fsms = NoObjects
    /\ owner = "fsm1"

\* the editing thread stages and calls a commit (the staged transition is in
\* its frame); the other thread calls process
LiveCall(t, f) ==
    /\ IF t = builder
       THEN f.op \in {"to", "onEnter", "onExit"} /\ calls[t] < MaxLiveCommits
       ELSE f.op = "process"
    /\ Call(t, f)
    /\ calls' = [calls EXCEPT ![t] = IF t = builder THEN @ + 1 ELSE @]
    /\ UNCHANGED <<counter, trace>>

NextLive ==
    \E t \in Threads :
        \/ \E f \in Calls : LiveCall(t, f) /\ InternerIdle /\ NoMove
        \/ Acquire(t) /\ InternerIdle /\ NoStress /\ NoMove
        \/ ProcessSelect(t) /\ InternerIdle /\ NoStress /\ NoMove
        \/ ProcessActions(t) /\ InternerIdle /\ NoStress /\ NoMove
        \/ ProcessExit(t) /\ InternerIdle /\ NoStress /\ NoMove
        \/ ProcessAssign(t) /\ InternerIdle /\ NoStress /\ NoMove
        \/ ProcessEnter(t) /\ InternerIdle /\ NoStress /\ NoMove
        \/ CommitBody(t) /\ InternerIdle /\ NoStress /\ NoMove
        \/ Release(t) /\ InternerIdle /\ NoStress /\ NoMove

SpecLive == InitLive /\ [][NextLive]_vars

----------------------------------------------------------------------------
(* A Transition object and the hooks of a machine on their own, each call  *)
(* observed with its argument.                                             *)

\* predicates, and actions, stored on the transition
MaxStored == 3

\* on-enter, and on-exit, actions stored per state
MaxHooks == 1

\* the predicates handed to addPredicate
UnitPreds == {"is0", "is1", NullFn}

\* the Transition under test
transition == frame[builder].tr

UnitFrame == UNCHANGED <<states_, current_state_, has_initial_state_, mutex_, pc>>

\* transition.addPredicate(pred)
TransitionAddPredicate(pred) ==
    /\ pred # NullFn => Len(transition.predicates_) < MaxStored
    /\ frame' = [frame EXCEPT ![builder].tr = addPredicate(@, pred)]
    /\ lastCall' = Observe("addPredicate", Empty, DefaultEvent, "ok", pred, <<>>)
    /\ UnitFrame

\* transition.addAction(action)
TransitionAddAction(action) ==
    /\ action # NullFn => Len(transition.actions_) < MaxStored
    /\ frame' = [frame EXCEPT ![builder].tr = addAction(@, action)]
    /\ lastCall' = Observe("addAction", Empty, DefaultEvent, "ok", action, <<>>)
    /\ UnitFrame

\* transition.predicatesPass(event)
TransitionPredicatesPass(event) ==
    /\ lastCall' = Observe("predicatesPass", Empty, event,
                           IF predicatesPass(transition, event) THEN "true" ELSE "false",
                           Empty, PredLog(transition, Empty, 1, event))
    /\ UNCHANGED frame
    /\ UnitFrame

\* transition.executeActions(event)
TransitionExecuteActions(event) ==
    /\ lastCall' = Observe("executeActions", Empty, event, "ok", Empty,
                           executeActions(transition, Empty, 1, event))
    /\ UNCHANGED frame
    /\ UnitFrame

\* fsm.addOnEnterAction(state, action)
HookOnEnter(state, action) ==
    /\ action # NullFn =>
          (state \in DOMAIN states_ => Len(states_[state].on_enter_actions) < MaxHooks)
    /\ states_' = addOnEnterActionImpl(states_, state, action)
    /\ lastCall' = Observe("addOnEnterAction", state, DefaultEvent, "ok", action, <<>>)
    /\ UNCHANGED <<current_state_, has_initial_state_, mutex_, pc, frame>>

\* fsm.addOnExitAction(state, action)
HookOnExit(state, action) ==
    /\ action # NullFn =>
          (state \in DOMAIN states_ => Len(states_[state].on_exit_actions) < MaxHooks)
    /\ states_' = addOnExitActionImpl(states_, state, action)
    /\ lastCall' = Observe("addOnExitAction", state, DefaultEvent, "ok", action, <<>>)
    /\ UNCHANGED <<current_state_, has_initial_state_, mutex_, pc, frame>>

NextTransition ==
    \/ \E pred \in UnitPreds : TransitionAddPredicate(pred) /\ InternerIdle /\ NoStress /\ NoMove
    \/ \E action \in ActionInputs : TransitionAddAction(action) /\ InternerIdle /\ NoStress /\ NoMove
    \/ \E event \in Events : TransitionPredicatesPass(event) /\ InternerIdle /\ NoStress /\ NoMove
    \/ \E event \in Events : TransitionExecuteActions(event) /\ InternerIdle /\ NoStress /\ NoMove
    \/ \E state \in StateNames, action \in ActionInputs :
          HookOnEnter(state, action) /\ InternerIdle /\ NoStress /\ NoMove
    \/ \E state \in StateNames, action \in ActionInputs :
          HookOnExit(state, action) /\ InternerIdle /\ NoStress /\ NoMove

SpecTransition == Init /\ [][NextTransition]_vars

----------------------------------------------------------------------------
(* Moving the machine.  The objects fsm1, fsm2, fsm3 are moved into one    *)
(* another; every call is made on the object that owns the machine.  The   *)
(* variables states_, current_state_, has_initial_state_ follow the same   *)
(* calls on a machine that is never moved, for comparison.                 *)

\* definitions the machine of the move test may hold
MaxMoveDefs == 2

\* variant: the initialized flag is not transferred
MoveFromWithoutFlag(this, other) ==
    [states_ |-> other.states_, current_state_ |-> other.current_state_,
     has_initial_state_ |-> this.has_initial_state_, life |-> "live"]

\* the three assignments of FSM(FSM&&) and of operator=(FSM&&)
MoveFrom(this, other) ==
    [states_ |-> other.states_, current_state_ |-> other.current_state_,
     has_initial_state_ |-> other.has_initial_state_, life |-> "live"]

\* variant: the move also resets the source's current state and flag
MovedFromReset(other) == [DefaultFSM EXCEPT !.life = "moved"]

\* the source after the move: states_ was moved from, which leaves a
\* std::unordered_map without elements; current_state_ and has_initial_state_
\* were only copied and keep their values
MovedFrom(other) == [other EXCEPT !.states_ = <<>>, !.life = "moved"]

MoveFrame == UNCHANGED <<mutex_, pc, frame>> /\ InternerIdle /\ NoStress

\* the call is made on the owning object: its three members afterwards
OnOwner(reg, cur, init) ==
    /\ fsms' = [fsms EXCEPT ![owner] = [@ EXCEPT !.states_ = reg, !.current_state_ = cur,
                                                 !.has_initial_state_ = init]]
    /\ UNCHANGED owner

\* owner.get_builder().from(from_state)...to(target)
MoveTo(from_state, tr, target) ==
    /\ TransitionDefs(tr) <= MaxMoveDefs - Used
    /\ to(from_state, tr, target)
    /\ OnOwner(addTransitionImpl(fsms[owner].states_, from_state, setTargetState(tr, target)),
               fsms[owner].current_state_, fsms[owner].has_initial_state_)

\* owner.get_builder().onExit(state, action)
MoveOnExit(state, action) ==
    /\ action # NullFn => MaxMoveDefs - Used >= 1
    /\ onExit(state, action)
    /\ OnOwner(addOnExitActionImpl(fsms[owner].states_, state, action),
               fsms[owner].current_state_, fsms[owner].has_initial_state_)

\* owner.setInitialState(state)
MoveSetInitialState(state) ==
    /\ setInitialState(state)
    /\ LET o == fsms[owner]
           r == setInitialStateImpl(o.states_, o.current_state_, o.has_initial_state_, state)
       IN OnOwner(o.states_, r.current, r.init)

\* owner.process(event)
MoveProcess(event) ==
    /\ process(event)
    /\ LET o == fsms[owner]
           r == processImpl(o.states_, o.current_state_, o.has_initial_state_, event)
       IN OnOwner(o.states_, r.current, o.has_initial_state_)

\* TestFSM dst = std::move(owner);
MoveConstruct(dst) ==
    /\ fsms[dst].life = "unborn"
    /\ fsms' = [fsms EXCEPT ![dst] = MoveFrom(DefaultFSM, fsms[owner]),
                             ![owner] = MovedFrom(fsms[owner])]
    /\ owner' = dst
    /\ UNCHANGED <<states_, current_state_, has_initial_state_, lastCall>>

\* dst = std::move(owner);  a self-assignment changes nothing
MoveAssign(dst) ==
    /\ fsms[dst].life # "unborn"
    /\ IF dst = owner
       THEN UNCHANGED fsms
       ELSE fsms' = [fsms EXCEPT ![dst] = MoveFrom(fsms[dst], fsms[owner]),
                                 ![owner] = MovedFrom(fsms[owner])]
    /\ owner' = dst
    /\ UNCHANGED <<states_, current_state_, has_initial_state_, lastCall>>

NextMove ==
    \/ \E from_state \in StateNames, target \in StateNames :
         \E tr \in Staged(MaxMoveDefs - 1) : MoveTo(from_state, tr, target) /\ MoveFrame
    \/ \E state \in StateNames, action \in ActionInputs : MoveOnExit(state, action) /\ MoveFrame
    \/ \E state \in CallNames : MoveSetInitialState(state) /\ MoveFrame
    \/ \E event \in Events : MoveProcess(event) /\ MoveFrame
    \/ \E dst \in Objects : MoveConstruct(dst) /\ MoveFrame
    \/ \E dst \in Objects : MoveAssign(dst) /\ MoveFrame

SpecMove == Init /\ [][NextMove]_vars

\* a call on an object other than the owner, with the object as its name
ObserveObject(op, obj, event, ret, val) ==
    [op |-> op, name |-> obj, ev |-> event, ret |-> ret, val |-> val, log |-> <<>>,
     pre_current |-> fsms[obj].current_state_, pre_init |-> fsms[obj].has_initial_state_]

\* obj.process(event) on an object that was moved from
MovedProcess(obj, event) ==
    /\ fsms[obj].life = "moved"
    /\ LET o == fsms[obj]
           r == processImpl(o.states_, o.current_state_, o.has_initial_state_, event)
       IN /\ lastCall' = ObserveObject("process", obj, event, r.ret, Empty)
          /\ fsms' = [fsms EXCEPT ![obj].current_state_ = r.current]
    /\ UNCHANGED <<states_, current_state_, has_initial_state_, owner>>

\* obj.getCurrentState() on an object that was moved from
MovedGetCurrentState(obj) ==
    /\ fsms[obj].life = "moved"
    /\ LET o == fsms[obj]
           r == getCurrentStateImpl(o.current_state_, o.has_initial_state_)
       IN lastCall' = ObserveObject("getCurrentState", obj, DefaultEvent, r.ret, r.val)
    /\ UNCHANGED <<states_, current_state_, has_initial_state_, fsms, owner>>

\* the move test with calls on the objects left behind; the machine is built
\* from transitions only
NextMovedFrom ==
    \/ \E from_state \in StateNames, target \in StateNames :
         \E tr \in Staged(MaxMoveDefs - 1) : MoveTo(from_state, tr, target) /\ MoveFrame
    \/ \E state \in CallNames : MoveSetInitialState(state) /\ MoveFrame
    \/ \E event \in Events : MoveProcess(event) /\ MoveFrame
    \/ \E dst \in Objects : MoveConstruct(dst) /\ MoveFrame
    \/ \E dst \in Objects : MoveAssign(dst) /\ MoveFrame
    \/ \E obj \in Objects, event \in Events : MovedProcess(obj, event) /\ MoveFrame
    \/ \E obj \in Objects : MovedGetCurrentState(obj) /\ MoveFrame

SpecMovedFrom == Init /\ [][NextMovedFrom]_vars

----------------------------------------------------------------------------
(* Move assignment in the thread-safe build: two threads assign the        *)
(* objects fsm1 and fsm3 to one another.  In this section mutex_ holds the *)
(* mutex_ member of each object.                                           *)

\* move assignments each thread executes
AssignsPerThread == 1

\* the objects the threads assign
Assigned == {"fsm1", "fsm3"}

\* the machines an object holds before the threads start
Built ==
    {DefaultFSM,
     [states_ |-> TestMachine, current_state_ |-> "A", has_initial_state_ |-> TRUE,
      life |-> "live"],
     [states_ |-> LiveMachine, current_state_ |-> "B", has_initial_state_ |-> TRUE,
      life |-> "live"]}

\* this and other of a pending operator= call
AssignFrame(this, other) == [op |-> "operator=", this |-> this, other |-> other]

InitAssign ==
    /\ states_ = <<>>
    /\ current_state_ = Empty
    /\ has_initial_state_ = FALSE
    /\ lastCall = NoCall
    /\ mutex_ = [o \in Objects |-> NoThread]
    /\ pc = [t \in Threads |-> "idle"]
    /\ frame = [t \in Threads |-> NoFrame]
    /\ interned_strings_ = {}
    /\ interner_mutex_ = NoThread
    /\ returned = {}
    /\ counter = 0
    /\ calls = [t \in Threads |-> 0]
    /\ trace = <<>>
    /\ \E a \in Built, b \in Built : fsms = [NoObjects EXCEPT !["fsm1"] = a, !["fsm3"] = b]
    /\ owner = "fsm1"

AssignIdle ==
    UNCHANGED <<states_, current_state_, has_initial_state_, lastCall, owner>>
        /\ InternerIdle /\ UNCHANGED <<counter, trace>>

\* thread t calls this = std::move(other); a self-assignment returns at once
AssignCall(t, this, other) ==
    /\ pc[t] = "idle"
    /\ calls[t] < AssignsPerThread
    /\ frame' = [frame EXCEPT ![t] = AssignFrame(this, other)]
    /\ pc' = [pc EXCEPT ![t] = IF this = other THEN "return" ELSE "lock_this"]
    /\ UNCHANGED <<mutex_, fsms, calls>>

\* std::unique_lock<std::mutex> lock(mutex_);
AssignLockThis(t) ==
    /\ pc[t] = "lock_this"
    /\ mutex_[frame[t].this] = NoThread
    /\ mutex_' = [mutex_ EXCEPT ![frame[t].this] = t]
    /\ pc' = [pc EXCEPT ![t] = "lock_other"]
    /\ UNCHANGED <<frame, fsms, calls>>

\* std::unique_lock<std::mutex> other_lock(other.mutex_);
AssignLockOther(t) ==
    /\ pc[t] = "lock_other"
    /\ mutex_[frame[t].other] = NoThread
    /\ mutex_' = [mutex_ EXCEPT ![frame[t].other] = t]
    /\ pc' = [pc EXCEPT ![t] = "assign"]
    /\ UNCHANGED <<frame, fsms, calls>>

\* the three assignments, under both locks
AssignBody(t) ==
    /\ pc[t] = "assign"
    /\ fsms' = [fsms EXCEPT ![frame[t].this] = MoveFrom(fsms[frame[t].this],
                                                        fsms[frame[t].other]),
                            ![frame[t].other] = MovedFrom(fsms[frame[t].other])]
    /\ pc' = [pc EXCEPT ![t] = "return"]
    /\ UNCHANGED <<mutex_, frame, calls>>

\* return *this; both locks are given up at the end of the if block
AssignReturn(t) ==
    /\ pc[t] = "return"
    /\ mutex_' = [o \in Objects |-> IF mutex_[o] = t THEN NoThread ELSE mutex_[o]]
    /\ pc' = [pc EXCEPT ![t] = "idle"]
    /\ frame' = [frame EXCEPT ![t] = NoFrame]
    /\ calls' = [calls EXCEPT ![t] = @ + 1]
    /\ UNCHANGED fsms

NextAssign ==
    \/ \E t \in Threads, this \in Assigned, other \in Assigned :
          AssignCall(t, this, other) /\ AssignIdle
    \/ \E t \in Threads : AssignLockThis(t) /\ AssignIdle
    \/ \E t \in Threads : AssignLockOther(t) /\ AssignIdle
    \/ \E t \in Threads : AssignBody(t) /\ AssignIdle
    \/ \E t \in Threads : AssignReturn(t) /\ AssignIdle

SpecAssign == InitAssign /\ [][NextAssign]_vars

----------------------------------------------------------------------------
(* The historical FSM::step(): the machine's mutex is a std::shared_mutex; *)
(* step() selects and runs the actions under a shared lock, then gives it  *)
(* up and takes a unique lock for the assignment of current_state_.        *)
(* Events do not exist in this variant; predicates take no argument.       *)

\* from("A").action(..).to("B"), from("B").to("A"), onExit("A", ..), onEnter("B", ..)
StepMachine ==
    addOnEnterActionImpl(
        addOnExitActionImpl(
            addTransitionImpl(
                addTransitionImpl(<<>>, "A",
                    setTargetState(addAction(NewTransition, "fn"), "B")),
                "B", setTargetState(NewTransition, "A")),
            "A", "fn"),
        "B", "fn")

\* the machine after setInitialState("A"), the threads not yet started
InitStep ==
    /\ states_ = StepMachine
    /\ current_state_ = "A"
    /\ has_initial_state_ = TRUE
    /\ lastCall = NoCall
    /\ mutex_ = NoThread
    /\ pc = [t \in Threads |-> "idle"]
    /\ frame = [t \in Threads |-> NoFrame]
    /\ interned_strings_ = {}
    /\ interner_mutex_ = NoThread
    /\ returned = {}
    /\ counter = 0
    /\ calls = [t \in Threads |-> 0]
    /\ trace = <<>>
    /\ fsms = NoObjects
    /\ owner = "fsm1"

\* thread t holds mutex_ in shared mode: from std::shared_lock to lock.unlock()
\* or, on the paths that do not change state, to the return
HoldsShared(t) ==
    \/ pc[t] \in {"step_select", "step_actions", "step_exit", "step_unlock"}
    \/ pc[t] = "step_return" /\ mutex_ # t

StepFrame == InternerIdle /\ NoStress /\ NoMove

\* thread t calls fsm.step()
StepCall(t) ==
    /\ pc[t] = "idle"
    /\ pc' = [pc EXCEPT ![t] = "step_lock"]
    /\ frame' = [frame EXCEPT ![t] = Frame("step", Empty, DefaultEvent, NewTransition, NullFn)]
    /\ UNCHANGED <<states_, current_state_, has_initial_state_, lastCall, mutex_>>

\* variant: the lock taken on entry admits one thread at a time
StepAcquireExclusive(t) ==
    /\ pc[t] = "step_lock"
    /\ mutex_ = NoThread
    /\ \A u \in Threads \ {t} : ~HoldsShared(u)
    /\ pc' = [pc EXCEPT ![t] = "step_select"]
    /\ UNCHANGED <<states_, current_state_, has_initial_state_, lastCall, mutex_, frame>>

\* std::shared_lock<std::shared_mutex> lock(mutex_): waits for a unique owner only
StepAcquireShared(t) ==
    /\ pc[t] = "step_lock"
    /\ mutex_ = NoThread
    /\ pc' = [pc EXCEPT ![t] = "step_select"]
    /\ UNCHANGED <<states_, current_state_, has_initial_state_, lastCall, mutex_, frame>>

\* the checks, the search for the first valid transition and the validation
\* of its target; val is the current state read, name the target selected
StepSelect(t) ==
    /\ pc[t] = "step_select"
    /\ LET cur == current_state_
           sel == IF has_initial_state_ /\ cur \in DOMAIN states_
                  THEN FirstPassing(states_, cur, DefaultEvent) ELSE 0
           tr == IF sel # 0 THEN states_[cur].transitions[sel] ELSE NewTransition
           err == \/ ~has_initial_state_
                  \/ cur \notin DOMAIN states_
                  \/ sel # 0 /\ (tr.target_state_ = Empty \/ tr.target_state_ \notin DOMAIN states_)
       IN /\ frame' = [frame EXCEPT ![t] =
                          [@ EXCEPT !.val = cur, !.sel = sel, !.name = tr.target_state_, !.tr = tr,
                                    !.ret = IF err THEN "runtime_error"
                                            ELSE IF sel = 0 THEN "false" ELSE "true"]]
          /\ pc' = [pc EXCEPT ![t] = IF err \/ sel = 0 THEN "step_return" ELSE "step_actions"]
    /\ UNCHANGED <<states_, current_state_, has_initial_state_, lastCall, mutex_>>

\* transition.executeActions(), then the test current_state_ != target_state
StepActions(t) ==
    /\ pc[t] = "step_actions"
    /\ frame' = [frame EXCEPT ![t].log =
                    @ \o executeActions(frame[t].tr, frame[t].val, frame[t].sel, DefaultEvent)]
    /\ pc' = [pc EXCEPT ![t] = IF StateChanges(current_state_, frame[t].name)
                               THEN "step_exit" ELSE "step_return"]
    /\ UNCHANGED <<states_, current_state_, has_initial_state_, lastCall, mutex_>>

\* variant: the on-exit actions are left out
StepExitSkipped(t) ==
    /\ pc[t] = "step_exit"
    /\ pc' = [pc EXCEPT ![t] = "step_unlock"]
    /\ UNCHANGED <<states_, current_state_, has_initial_state_, lastCall, mutex_, frame>>

\* executeOnExitActions(current_state_)
StepExit(t) ==
    /\ pc[t] = "step_exit"
    /\ frame' = [frame EXCEPT ![t].log =
                    @ \o executeOnExitActions(states_, current_state_, DefaultEvent, current_state_)]
    /\ pc' = [pc EXCEPT ![t] = "step_unlock"]
    /\ UNCHANGED <<states_, current_state_, has_initial_state_, lastCall, mutex_>>

\* lock.unlock(): the shared lock is given up
StepUnlockShared(t) ==
    /\ pc[t] = "step_unlock"
    /\ pc' = [pc EXCEPT ![t] = "step_upgrade"]
    /\ UNCHANGED <<states_, current_state_, has_initial_state_, lastCall, mutex_, frame>>

\* std::unique_lock<std::shared_mutex> unique_lock(mutex_): waits for every owner
StepAcquireUnique(t) ==
    /\ pc[t] = "step_upgrade"
    /\ mutex_ = NoThread
    /\ \A u \in Threads \ {t} : ~HoldsShared(u)
    /\ mutex_' = t
    /\ pc' = [pc EXCEPT ![t] = "step_assign"]
    /\ UNCHANGED <<states_, current_state_, has_initial_state_, lastCall, frame>>

\* current_state_ = target_state; executeOnEnterActions(current_state_)
StepAssign(t) ==
    /\ pc[t] = "step_assign"
    /\ current_state_' = frame[t].name
    /\ frame' = [frame EXCEPT ![t].log =
                    @ \o executeOnEnterActions(states_, frame[t].name, DefaultEvent, frame[t].name)]
    /\ pc' = [pc EXCEPT ![t] = "step_return"]
    /\ UNCHANGED <<states_, has_initial_state_, lastCall, mutex_>>

\* return (or throw): the lock that is held is released by its destructor
StepReturn(t) ==
    /\ pc[t] = "step_return"
    /\ mutex_' = IF mutex_ = t THEN NoThread ELSE mutex_
    /\ lastCall' = [op |-> "step", name |-> frame[t].name, ev |-> DefaultEvent,
                    ret |-> frame[t].ret, val |-> frame[t].val, log |-> frame[t].log,
                    pre_current |-> frame[t].val, pre_init |-> has_initial_state_]
    /\ pc' = [pc EXCEPT ![t] = "idle"]
    /\ frame' = [frame EXCEPT ![t] = NoFrame]
    /\ UNCHANGED <<states_, current_state_, has_initial_state_>>

NextStep ==
    \E t \in Threads :
        \/ StepCall(t) /\ StepFrame
        \/ StepAcquireShared(t) /\ StepFrame
        \/ StepSelect(t) /\ StepFrame
        \/ StepActions(t) /\ StepFrame
        \/ StepExit(t) /\ StepFrame
        \/ StepUnlockShared(t) /\ StepFrame
        \/ StepAcquireUnique(t) /\ StepFrame
        \/ StepAssign(t) /\ StepFrame
        \/ StepReturn(t) /\ StepFrame

SpecStep == InitStep /\ [][NextStep]_vars

----------------------------------------------------------------------------
(* Callbacks that raise.  An exception thrown by an action, an on-exit or  *)
(* an on-enter action leaves the operation at that statement: nothing in   *)
(* FSM.hpp catches it, the statements after it are skipped and the         *)
(* unique_lock is destroyed during unwinding.  Every invocation either     *)
(* returns or raises.  trace records the calls that have returned or       *)
(* raised, in order.                                                       *)

\* calls made on the machine
MaxThrowCalls == 3

\* the calls a thread makes
ThrowCalls ==
    {Frame("process", Empty, DefaultEvent, NewTransition, NullFn)}
    \cup {Frame(op, n, DefaultEvent, NewTransition, NullFn) :
             op \in {"setInitialState", "setCurrentState"}, n \in StateNames}

\* the machine is built and not initialized
InitThrow ==
    /\ states_ = StepMachine
    /\ current_state_ = Empty
    /\ has_initial_state_ = FALSE
    /\ lastCall = NoCall
    /\ mutex_ = NoThread
    /\ pc = [t \in Threads |-> "idle"]
    /\ frame = [t \in Threads |-> NoFrame]
    /\ interned_strings_ = {}
    /\ interner_mutex_ = NoThread
    /\ returned = {}
    /\ counter = 0
    /\ calls = [t \in Threads |-> 0]
    /\ trace = <<>>
    /\ fsms = NoObjects
    /\ owner = "fsm1"

ThrowIdle == UNCHANGED <<counter, calls>> /\ InternerIdle /\ NoMove

\* calls that have started and not yet returned or raised
InFlight == Cardinality({t \in Threads : pc[t] # "idle"})

\* thread t calls process, setInitialState or setCurrentState
ThrowCall(t, f) ==
    /\ pc[t] = "idle"
    /\ Len(trace) + InFlight < MaxThrowCalls
    /\ pc' = [pc EXCEPT ![t] = "lock"]
    /\ frame' = [frame EXCEPT ![t] = f]
    /\ UNCHANGED <<states_, current_state_, has_initial_state_, lastCall, mutex_>>

\* the invocations of a callback list when its k-th callable raises
RaisedAt(invocations, k) == SubSeq(invocations, 1, k)

\* the call leaves its body by an exception with the invocations made so far
Raise(t, log) ==
    /\ frame' = [frame EXCEPT ![t].ret = "exception", ![t].log = log]
    /\ pc' = [pc EXCEPT ![t] = "unlock"]

\* process: an action of transition.executeActions(event) raises
ProcessActionsRaises(t) ==
    /\ pc[t] = "actions"
    /\ LET f == frame[t]
           tr == states_[current_state_].transitions[f.sel]
           all == executeActions(tr, current_state_, f.sel, f.ev)
       IN \E k \in DOMAIN all : Raise(t, f.log \o RaisedAt(all, k))
    /\ UNCHANGED <<states_, current_state_, has_initial_state_, lastCall, mutex_>>

\* process: an action of executeOnExitActions(current_state_, event) raises
ProcessExitRaises(t) ==
    /\ pc[t] = "exit"
    /\ LET all == executeOnExitActions(states_, current_state_, frame[t].ev, current_state_)
       IN \E k \in DOMAIN all : Raise(t, frame[t].log \o RaisedAt(all, k))
    /\ UNCHANGED <<states_, current_state_, has_initial_state_, lastCall, mutex_>>

\* variant: current_state_ is put back when an on-enter action raises
ProcessEnterRaisesRestores(t) ==
    /\ pc[t] = "enter"
    /\ LET all == executeOnEnterActions(states_, current_state_, frame[t].ev, current_state_)
       IN \E k \in DOMAIN all : Raise(t, frame[t].log \o RaisedAt(all, k))
    /\ current_state_' = frame[t].log[Len(frame[t].log)].cur
    /\ UNCHANGED <<states_, has_initial_state_, lastCall, mutex_>>

\* process: an action of executeOnEnterActions(current_state_, event) raises,
\* after the assignment
ProcessEnterRaises(t) ==
    /\ pc[t] = "enter"
    /\ LET all == executeOnEnterActions(states_, current_state_, frame[t].ev, current_state_)
       IN \E k \in DOMAIN all : Raise(t, frame[t].log \o RaisedAt(all, k))
    /\ UNCHANGED <<states_, current_state_, has_initial_state_, lastCall, mutex_>>

\* setInitialState: an on-enter action raises, after the two assignments
SetInitialStateRaises(t) ==
    /\ pc[t] = "setInitialState"
    /\ LET r == setInitialStateImpl(states_, current_state_, has_initial_state_, frame[t].name)
       IN /\ r.ret = "ok"
          /\ \E k \in DOMAIN r.log : Raise(t, RaisedAt(r.log, k))
          /\ current_state_' = r.current
          /\ has_initial_state_' = r.init
    /\ UNCHANGED <<states_, lastCall, mutex_>>

\* setCurrentState: an on-exit action raises before the two assignments, or an
\* on-enter action raises after them
SetCurrentStateRaises(t) ==
    /\ pc[t] = "setCurrentState"
    /\ LET r == setCurrentStateImpl(states_, current_state_, has_initial_state_, frame[t].name)
       IN /\ r.ret = "ok"
          /\ \E k \in DOMAIN r.log :
                /\ Raise(t, RaisedAt(r.log, k))
                /\ IF r.log[k].kind = "exit"
                   THEN UNCHANGED <<current_state_, has_initial_state_>>
                   ELSE current_state_' = r.current /\ has_initial_state_' = r.init
    /\ UNCHANGED <<states_, lastCall, mutex_>>

\* the call returns or its exception leaves it: the unique_lock is destroyed;
\* the caller notes the outcome and the state the machine is left in
ThrowReturn(t) ==
    /\ Release(t)
    /\ trace' = Append(trace, [thread |-> t, op |-> frame[t].op, ret |-> frame[t].ret,
                               log |-> frame[t].log, current |-> current_state_,
                               init |-> has_initial_state_])

NextThrow ==
    \E t \in Threads :
        \/ \E f \in ThrowCalls : ThrowCall(t, f) /\ ThrowIdle /\ UNCHANGED trace
        \/ Acquire(t) /\ ThrowIdle /\ UNCHANGED trace
        \/ ProcessSelect(t) /\ ThrowIdle /\ UNCHANGED trace
        \/ ProcessActions(t) /\ ThrowIdle /\ UNCHANGED trace
        \/ ProcessActionsRaises(t) /\ ThrowIdle /\ UNCHANGED trace
        \/ ProcessExit(t) /\ ThrowIdle /\ UNCHANGED trace
        \/ ProcessExitRaises(t) /\ ThrowIdle /\ UNCHANGED trace
        \/ ProcessAssign(t) /\ ThrowIdle /\ UNCHANGED trace
        \/ ProcessEnter(t) /\ ThrowIdle /\ UNCHANGED trace
        \/ ProcessEnterRaises(t) /\ ThrowIdle /\ UNCHANGED trace
        \/ SetInitialStateBody(t) /\ ThrowIdle /\ UNCHANGED trace
        \/ SetInitialStateRaises(t) /\ ThrowIdle /\ UNCHANGED trace
        \/ SetCurrentStateBody(t) /\ ThrowIdle /\ UNCHANGED trace
        \/ SetCurrentStateRaises(t) /\ ThrowIdle /\ UNCHANGED trace
        \/ ThrowReturn(t) /\ ThrowIdle

SpecThrow == InitThrow /\ [][NextThrow]_vars

----------------------------------------------------------------------------
(* A callback that calls back into the machine.  One callable of the       *)
(* machine (a predicate, a transition action, an on-exit or an on-enter    *)
(* action) calls a public operation of the same machine the first time it  *)
(* is invoked during a call.  The machine is built either with             *)
(* FSMGINE_MULTI_THREADED (mutex_ is a std::mutex) or without (no mutex).  *)

\* builder commits made from inside a callback
MaxNestedCommits == 1

\* value of mutex_ in the build without FSMGINE_MULTI_THREADED
NoMutex == "no mutex"

\* from("A").predicate(e == 1).action(..).to("B"), from("B").to("A"),
\* onExit("A", ..), onEnter("B", ..)
ReMachine ==
    addOnEnterActionImpl(
        addOnExitActionImpl(
            addTransitionImpl(
                addTransitionImpl(<<>>, "A",
                    setTargetState(addAction(addPredicate(NewTransition, "is1"), "fn"), "B")),
                "B", setTargetState(NewTransition, "A")),
            "A", "fn"),
        "B", "fn")

\* the four callables of ReMachine, named by their kind
Kinds == {"pred", "action", "exit", "enter"}

\* the operations a callback can call on the machine; the commit is
\* onEnter("A", ..), which touches no list that is being iterated
NestedOps ==
    {[op |-> "process", name |-> Empty, ev |-> e] : e \in Events}
    \cup {[op |-> op, name |-> n, ev |-> DefaultEvent] :
             op \in {"setCurrentState", "setInitialState"}, n \in StateNames}
    \cup {[op |-> "getCurrentState", name |-> Empty, ev |-> DefaultEvent],
          [op |-> "onEnter", name |-> "A", ev |-> DefaultEvent]}

\* the calls made from outside: each invokes callbacks
OuterOps ==
    {[op |-> "process", name |-> Empty, ev |-> e] : e \in Events}
    \cup {[op |-> op, name |-> n, ev |-> DefaultEvent] :
             op \in {"setCurrentState", "setInitialState"}, n \in StateNames}

\* arguments and locals of a call whose callable `kind` makes the call `nested`;
\* at is the state whose list is being run, target the selected target_state
ReFrame(call, kind, nested) ==
    [op |-> call.op, name |-> call.name, ev |-> call.ev, kind |-> kind, nested |-> nested,
     fired |-> FALSE, returned |-> FALSE, resume |-> "none", at |-> Empty, sel |-> 0,
     target |-> Empty, ret |-> "ok", val |-> Empty, log |-> <<>>]

NoReFrame == ReFrame([op |-> "none", name |-> Empty, ev |-> DefaultEvent], "none",
                     [op |-> "none", name |-> Empty, ev |-> DefaultEvent])

\* the machine after setInitialState("A"), in either build
InitReentrant ==
    /\ states_ = ReMachine
    /\ current_state_ = "A"
    /\ has_initial_state_ = TRUE
    /\ lastCall = NoCall
    /\ mutex_ \in {NoThread, NoMutex}
    /\ pc = [t \in Threads |-> "idle"]
    /\ frame = [t \in Threads |-> NoReFrame]
    /\ interned_strings_ = {}
    /\ interner_mutex_ = NoThread
    /\ returned = {}
    /\ counter = 0
    /\ calls = [t \in Threads |-> 0]
    /\ trace = <<>>
    /\ fsms = NoObjects
    /\ owner = "fsm1"

ReFrameVars == InternerIdle /\ NoStress /\ NoMove

ReMachineUnchanged == UNCHANGED <<states_, current_state_, has_initial_state_, lastCall, mutex_>>

\* the callable of the given kind, owned by state, is about to be invoked and
\* will make its nested call
Reenters(t, kind, state) ==
    /\ frame[t].kind = kind
    /\ ~frame[t].fired
    /\ state = (IF kind = "enter" THEN "B" ELSE "A")
    /\ frame[t].nested.op = "onEnter" => Used - RegistryDefs(ReMachine, DOMAIN ReMachine) < MaxNestedCommits

\* the callable is invoked and calls the nested operation, which starts by
\* locking mutex_ (thread-safe build); resume is where the caller goes on when
\* the callable has returned
InvokeReentrant(t, resume) ==
    /\ frame' = [frame EXCEPT ![t].fired = TRUE, ![t].resume = resume]
    /\ pc' = [pc EXCEPT ![t] = "nested_lock"]
    /\ ReMachineUnchanged

\* thread t calls an operation from outside
ReCall(t, f) ==
    /\ pc[t] = "idle"
    /\ pc' = [pc EXCEPT ![t] = "lock"]
    /\ frame' = [frame EXCEPT ![t] = f]
    /\ ReMachineUnchanged

\* std::unique_lock<std::mutex> lock(mutex_), compiled in the thread-safe build only
ReAcquire(t) ==
    /\ pc[t] = "lock"
    /\ mutex_ \in {NoThread, NoMutex}
    /\ mutex_' = IF mutex_ = NoMutex THEN NoMutex ELSE t
    /\ pc' = [pc EXCEPT ![t] = frame[t].op]
    /\ UNCHANGED <<states_, current_state_, has_initial_state_, lastCall, frame>>

\* process: the checks and the lookup of the current state's data
ReProcessEntry(t) ==
    /\ pc[t] = "process"
    /\ IF ~has_initial_state_
       THEN /\ frame' = [frame EXCEPT ![t].ret = "FSMNotInitializedError"]
            /\ pc' = [pc EXCEPT ![t] = "unlock"]
       ELSE IF current_state_ \notin DOMAIN states_
       THEN /\ frame' = [frame EXCEPT ![t].ret = "FSMStateNotFoundError"]
            /\ pc' = [pc EXCEPT ![t] = "unlock"]
       ELSE /\ frame' = [frame EXCEPT ![t].at = current_state_, ![t].val = current_state_]
            /\ pc' = [pc EXCEPT ![t] = "preds"]
    /\ ReMachineUnchanged

\* process: the loop over the transitions of the state looked up, to the first
\* whose predicates pass, and the validation of its target
ReProcessSelect(t) ==
    /\ pc[t] = "preds"
    /\ IF Reenters(t, "pred", frame[t].at) /\ states_[frame[t].at].transitions # <<>>
       THEN InvokeReentrant(t, "preds")
       ELSE LET f == frame[t]
                sel == FirstPassing(states_, f.at, f.ev)
                r == ScanTransitions(states_, f.at, 1, f.ev, <<>>)
                plog == SelectSeq(r.log, LAMBDA x : x.kind = "pred")
                tr == states_[f.at].transitions[sel]
            IN /\ IF sel = 0
                  THEN /\ frame' = [frame EXCEPT ![t] = [f EXCEPT !.log = @ \o plog, !.ret = "false"]]
                       /\ pc' = [pc EXCEPT ![t] = "unlock"]
                  ELSE IF tr.target_state_ = Empty
                  THEN /\ frame' = [frame EXCEPT ![t] =
                                       [f EXCEPT !.log = @ \o plog, !.ret = "FSMInvalidStateError"]]
                       /\ pc' = [pc EXCEPT ![t] = "unlock"]
                  ELSE IF tr.target_state_ \notin DOMAIN states_
                  THEN /\ frame' = [frame EXCEPT ![t] =
                                       [f EXCEPT !.log = @ \o plog, !.ret = "FSMStateNotFoundError"]]
                       /\ pc' = [pc EXCEPT ![t] = "unlock"]
                  ELSE /\ frame' = [frame EXCEPT ![t] =
                                       [f EXCEPT !.log = @ \o plog, !.sel = sel,
                                                 !.target = tr.target_state_]]
                       /\ pc' = [pc EXCEPT ![t] = "actions"]
               /\ ReMachineUnchanged

\* process: transition.executeActions(event), then the test
\* current_state_ != target_state
ReProcessActions(t) ==
    /\ pc[t] = "actions"
    /\ IF Reenters(t, "action", frame[t].at) /\ frame[t].sel = 1
       THEN InvokeReentrant(t, "actions")
       ELSE LET f == frame[t]
                tr == states_[f.at].transitions[f.sel]
                log == f.log \o executeActions(tr, f.at, f.sel, f.ev)
            IN /\ IF StateChanges(current_state_, f.target)
                  THEN /\ frame' = [frame EXCEPT ![t] = [f EXCEPT !.log = log, !.at = current_state_]]
                       /\ pc' = [pc EXCEPT ![t] = "exit"]
                  ELSE /\ frame' = [frame EXCEPT ![t] = [f EXCEPT !.log = log, !.ret = "true"]]
                       /\ pc' = [pc EXCEPT ![t] = "unlock"]
               /\ ReMachineUnchanged

\* process and setCurrentState: executeOnExitActions of the state being left
ReExit(t) ==
    /\ pc[t] = "exit"
    /\ IF Reenters(t, "exit", frame[t].at)
       THEN InvokeReentrant(t, "exit")
       ELSE /\ frame' = [frame EXCEPT ![t].log =
                            @ \o executeOnExitActions(states_, frame[t].at, frame[t].ev, frame[t].at)]
            /\ pc' = [pc EXCEPT ![t] = "assign"]
            /\ ReMachineUnchanged

\* current_state_ = target (and has_initial_state_ = true in the setters)
ReAssign(t) ==
    /\ pc[t] = "assign"
    /\ current_state_' = frame[t].target
    /\ has_initial_state_' = TRUE
    /\ frame' = [frame EXCEPT ![t].at = frame[t].target]
    /\ pc' = [pc EXCEPT ![t] = "enter"]
    /\ UNCHANGED <<states_, lastCall, mutex_>>

\* executeOnEnterActions of the state just assigned, then the return
ReEnter(t) ==
    /\ pc[t] = "enter"
    /\ IF Reenters(t, "enter", frame[t].at)
       THEN InvokeReentrant(t, "enter")
       ELSE /\ frame' = [frame EXCEPT ![t].log =
                            @ \o executeOnEnterActions(states_, frame[t].at, frame[t].ev, frame[t].at),
                         ![t].ret = IF frame[t].op = "process" THEN "true" ELSE "ok"]
            /\ pc' = [pc EXCEPT ![t] = "unlock"]
            /\ ReMachineUnchanged

\* setInitialState: the lookup of the state
ReSetInitialState(t) ==
    /\ pc[t] = "setInitialState"
    /\ IF frame[t].name \notin DOMAIN states_
       THEN /\ frame' = [frame EXCEPT ![t].ret = "FSMInvalidStateError"]
            /\ pc' = [pc EXCEPT ![t] = "unlock"]
       ELSE /\ frame' = [frame EXCEPT ![t].target = frame[t].name]
            /\ pc' = [pc EXCEPT ![t] = "assign"]
    /\ ReMachineUnchanged

\* setCurrentState: the lookup of the state and the test whether one is left
ReSetCurrentState(t) ==
    /\ pc[t] = "setCurrentState"
    /\ IF frame[t].name \notin DOMAIN states_
       THEN /\ frame' = [frame EXCEPT ![t].ret = "FSMInvalidStateError"]
            /\ pc' = [pc EXCEPT ![t] = "unlock"]
       ELSE /\ frame' = [frame EXCEPT ![t].target = frame[t].name, ![t].at = current_state_]
            /\ pc' = [pc EXCEPT ![t] = IF has_initial_state_ /\ current_state_ # frame[t].name
                                       THEN "exit" ELSE "assign"]
    /\ ReMachineUnchanged

\* variant: mutex_ is a std::recursive_mutex, which its owner may lock again
NestedAcquireRecursive(t) ==
    /\ pc[t] = "nested_lock"
    /\ mutex_ \in {NoThread, NoMutex, t}
    /\ pc' = [pc EXCEPT ![t] = "nested_body"]
    /\ UNCHANGED <<states_, current_state_, has_initial_state_, lastCall, mutex_, frame>>

\* the nested operation's std::unique_lock<std::mutex> lock(mutex_): a
\* std::mutex whose owner locks it again does not grant the lock
NestedAcquire(t) ==
    /\ pc[t] = "nested_lock"
    /\ mutex_ \in {NoThread, NoMutex}
    /\ pc' = [pc EXCEPT ![t] = "nested_body"]
    /\ UNCHANGED <<states_, current_state_, has_initial_state_, lastCall, mutex_, frame>>

\* locking a std::mutex the thread owns is undefined: it blocks for ever, or
\* lock() throws std::system_error (resource_deadlock_would_occur), which
\* leaves the callback and the outer call as an exception
NestedLockThrows(t) ==
    /\ pc[t] = "nested_lock"
    /\ mutex_ = t
    /\ frame' = [frame EXCEPT ![t].ret = "std::system_error"]
    /\ pc' = [pc EXCEPT ![t] = "unlock"]
    /\ ReMachineUnchanged

\* the nested operation runs and returns, and the callable returns to its caller
NestedBody(t) ==
    /\ pc[t] = "nested_body"
    /\ LET n == frame[t].nested
           p == processImpl(states_, current_state_, has_initial_state_, n.ev)
           c == setCurrentStateImpl(states_, current_state_, has_initial_state_, n.name)
           i == setInitialStateImpl(states_, current_state_, has_initial_state_, n.name)
       IN /\ states_' = IF n.op = "onEnter"
                        THEN addOnEnterActionImpl(states_, n.name, "fn") ELSE states_
          /\ current_state_' = IF n.op = "process" THEN p.current
                               ELSE IF n.op = "setCurrentState" THEN c.current
                               ELSE IF n.op = "setInitialState" THEN i.current
                               ELSE current_state_
          /\ frame' = [frame EXCEPT ![t].returned = TRUE,
                          ![t].log = @ \o (IF n.op = "process" THEN p.log
                                           ELSE IF n.op = "setCurrentState" THEN c.log
                                           ELSE IF n.op = "setInitialState" THEN i.log
                                           ELSE <<>>)]
    /\ pc' = [pc EXCEPT ![t] = frame[t].resume]
    /\ UNCHANGED <<has_initial_state_, lastCall, mutex_>>

\* the call returns or throws; the lock is released by its destructor
ReRelease(t) ==
    /\ pc[t] = "unlock"
    /\ mutex_' = IF mutex_ = t THEN NoThread ELSE mutex_
    /\ lastCall' = [op |-> frame[t].op, name |-> frame[t].name, ev |-> frame[t].ev,
                    ret |-> frame[t].ret, val |-> frame[t].val, log |-> frame[t].log,
                    pre_current |-> frame[t].val, pre_init |-> TRUE]
    /\ pc' = [pc EXCEPT ![t] = "idle"]
    /\ frame' = [frame EXCEPT ![t] = NoReFrame]
    /\ UNCHANGED <<states_, current_state_, has_initial_state_>>

NextReentrant ==
    \/ \E call \in OuterOps, kind \in Kinds, nested \in NestedOps :
          ReCall(builder, ReFrame(call, kind, nested)) /\ ReFrameVars
    \/ ReAcquire(builder) /\ ReFrameVars
    \/ ReProcessEntry(builder) /\ ReFrameVars
    \/ ReProcessSelect(builder) /\ ReFrameVars
    \/ ReProcessActions(builder) /\ ReFrameVars
    \/ ReExit(builder) /\ ReFrameVars
    \/ ReAssign(builder) /\ ReFrameVars
    \/ ReEnter(builder) /\ ReFrameVars
    \/ ReSetInitialState(builder) /\ ReFrameVars
    \/ ReSetCurrentState(builder) /\ ReFrameVars
    \/ NestedAcquire(builder) /\ ReFrameVars
    \/ NestedLockThrows(builder) /\ ReFrameVars
    \/ NestedBody(builder) /\ ReFrameVars
    \/ ReRelease(builder) /\ ReFrameVars

SpecReentrant == InitReentrant /\ [][NextReentrant]_vars

----------------------------------------------------------------------------
(* Vocabulary of the properties *)

\* the transition accepts the event: every one of its predicates returns true
Passes(tr, event) == \A i \in DOMAIN tr.predicates_ : PredCall(tr.predicates_[i], event)

TransitionsOf(state) == IF state \in DOMAIN states_ THEN states_[state].transitions ELSE <<>>

\* positions of the transitions of state that accept the event
Matching(state, event) ==
    {t \in DOMAIN TransitionsOf(state) : Passes(TransitionsOf(state)[t], event)}

\* position of the earliest committed transition of state accepting the event, 0 if none
FirstMatch(state, event) ==
    IF Matching(state, event) = {} THEN 0
    ELSE CHOOSE t \in Matching(state, event) : \A u \in Matching(state, event) : t <= u

\* the most recent call was process(event) on an initialized machine
ProcessedInitialized == lastCall.op = "process" /\ lastCall.pre_init

\* position of the transition that call had to select
Selected == FirstMatch(lastCall.pre_current, lastCall.ev)

SelectedTransition == TransitionsOf(lastCall.pre_current)[Selected]

\* the invocations of the most recent call that are not predicate evaluations
Callbacks == SelectSeq(lastCall.log, LAMBDA x : x.kind # "pred")

OfKind(kind) == SelectSeq(lastCall.log, LAMBDA x : x.kind = kind)

----------------------------------------------------------------------------
(* Event processing *)

\* C1: on an initialized machine process(event) fires the earliest committed
\* transition of the current state whose predicates all pass: it returns true
\* and afterwards the current state is that transition's target.
C1_FiresFirstMatch ==
    (ProcessedInitialized /\ Selected # 0) =>
        /\ lastCall.ret = "true"
        /\ current_state_ = SelectedTransition.target_state_

\* C2: first definition wins.  During a process call only the earliest
\* committed matching transition is executed: no action of any other
\* transition runs, every transition before it had a predicate evaluated (and
\* failing), and no predicate of a transition after it is evaluated.
C2_FirstDefinitionWins ==
    (ProcessedInitialized /\ Selected # 0) =>
        /\ \A i \in DOMAIN lastCall.log :
              /\ lastCall.log[i].kind = "action" => lastCall.log[i].trans = Selected
              /\ lastCall.log[i].kind = "pred" => lastCall.log[i].trans <= Selected
        /\ \A t \in 1..(Selected - 1) :
              \E i \in DOMAIN lastCall.log :
                  lastCall.log[i].kind = "pred" /\ lastCall.log[i].trans = t
        /\ lastCall.ret = "true" =>
              Len(OfKind("action")) = Len(SelectedTransition.actions_)

\* several transitions matched, the call fired one, and a later matching
\* transition carries predicates or actions that had to stay untouched
C2_Witness ==
    /\ ProcessedInitialized
    /\ lastCall.ret = "true"
    /\ lastCall.log # <<>>
    /\ \E u \in Matching(lastCall.pre_current, lastCall.ev) :
          /\ u > Selected
          /\ TransitionDefs(TransitionsOf(lastCall.pre_current)[u]) > 1

\* C3: when process fires a transition to a different state the callbacks run
\* in this order: every action of the transition, then the on-exit actions of
\* the old state (the old state still being current), then current becomes the
\* target, then the on-enter actions of the target; predicates come before all.
C3_CallbackOrder ==
    (/\ ProcessedInitialized
     /\ lastCall.ret = "true"
     /\ Selected # 0
     /\ SelectedTransition.target_state_ # lastCall.pre_current) =>
        LET old == lastCall.pre_current
            new == SelectedTransition.target_state_
            na == Len(SelectedTransition.actions_)
            nx == Len(states_[old].on_exit_actions)
            ne == IF new \in DOMAIN states_ THEN Len(states_[new].on_enter_actions) ELSE 0
        IN /\ Len(Callbacks) = na + nx + ne
           /\ \A i \in 1..Len(Callbacks) :
                 IF i <= na
                 THEN Callbacks[i] = LogEntry("action", old, Selected, i, lastCall.ev, old)
                 ELSE IF i <= na + nx
                 THEN Callbacks[i] = LogEntry("exit", old, 0, i - na, lastCall.ev, old)
                 ELSE Callbacks[i] = LogEntry("enter", new, 0, i - na - nx, lastCall.ev, new)
           /\ \A i, j \in DOMAIN lastCall.log :
                 (i < j /\ lastCall.log[j].kind = "pred") => lastCall.log[i].kind = "pred"
           /\ current_state_ = new

\* a state-changing transition fired with an action, an on-exit action of the
\* old state and an on-enter action of the new state all present
C3_Witness ==
    /\ ProcessedInitialized
    /\ lastCall.ret = "true"
    /\ current_state_ # lastCall.pre_current
    /\ OfKind("action") # <<>>
    /\ OfKind("exit") # <<>>
    /\ OfKind("enter") # <<>>

\* C4: a self-transition fired by process runs the transition's actions and
\* returns true, runs no on-exit and no on-enter action and leaves current
\* unchanged.
C4_SelfTransition ==
    (/\ ProcessedInitialized
     /\ Selected # 0
     /\ SelectedTransition.target_state_ = lastCall.pre_current) =>
        /\ lastCall.ret = "true"
        /\ current_state_ = lastCall.pre_current
        /\ OfKind("exit") = <<>>
        /\ OfKind("enter") = <<>>
        /\ Callbacks = [i \in 1..Len(SelectedTransition.actions_) |->
                          LogEntry("action", lastCall.pre_current, Selected, i,
                                   lastCall.ev, lastCall.pre_current)]

\* a self-transition with an action fired on a state that has on-enter and
\* on-exit actions
C4_Witness ==
    /\ ProcessedInitialized
    /\ Selected # 0
    /\ SelectedTransition.target_state_ = lastCall.pre_current
    /\ SelectedTransition.actions_ # <<>>
    /\ states_[lastCall.pre_current].on_enter_actions # <<>>
    /\ states_[lastCall.pre_current].on_exit_actions # <<>>

\* C5: when no transition of the current state matches the event, process
\* returns false, current is unchanged and no transition action, on-exit
\* action or on-enter action runs.
C5_NoMatchNoEffect ==
    (ProcessedInitialized /\ Selected = 0) =>
        /\ lastCall.ret = "false"
        /\ current_state_ = lastCall.pre_current
        /\ has_initial_state_
        /\ Callbacks = <<>>

\* process found no match on a state whose only transition carries an action
\* and which has an on-exit action
C5_Witness ==
    /\ ProcessedInitialized
    /\ Selected = 0
    /\ TransitionsOf(lastCall.pre_current) # <<>>
    /\ TransitionsOf(lastCall.pre_current)[1].actions_ # <<>>
    /\ states_[lastCall.pre_current].on_exit_actions # <<>>

\* process found no match on a state without outgoing transitions
C5_WitnessNoTransitions ==
    /\ ProcessedInitialized
    /\ lastCall.pre_current \in DOMAIN states_
    /\ TransitionsOf(lastCall.pre_current) = <<>>
    /\ lastCall.ret = "false"

----------------------------------------------------------------------------
(* State-change primitives *)

\* C7: on a machine on which no setInitialState or setCurrentState call has
\* succeeded, process and getCurrentState raise FSMNotInitializedError, return
\* no state, evaluate no predicate, run no callback and leave the machine
\* uninitialized.
C7_UninitializedRaises ==
    (lastCall.op \in {"process", "getCurrentState"} /\ ~lastCall.pre_init) =>
        /\ lastCall.ret = "FSMNotInitializedError"
        /\ lastCall.val = Empty
        /\ lastCall.log = <<>>
        /\ ~has_initial_state_
        /\ current_state_ = lastCall.pre_current

\* getCurrentState was called on an uninitialized machine after builder
\* commits had registered a state with an unguarded transition
C7_Witness ==
    /\ lastCall.op = "getCurrentState"
    /\ ~lastCall.pre_init
    /\ \E s \in DOMAIN states_ : Matching(s, DefaultEvent) # {}

\* process was called on such a machine
C7_WitnessProcess ==
    /\ lastCall.op = "process"
    /\ ~lastCall.pre_init
    /\ \E s \in DOMAIN states_ : Matching(s, lastCall.ev) # {}

\* C8: setInitialState(name) and setCurrentState(name) with a name that no
\* builder commit has referenced raise FSMInvalidStateError and change
\* nothing: current and the initialized flag keep their values, no on-exit or
\* on-enter action runs and the name is still not registered afterwards.
C8_UndefinedStateRejected ==
    (lastCall.op \in {"setInitialState", "setCurrentState"}) =>
        /\ lastCall.name \notin DOMAIN states_ => lastCall.ret = "FSMInvalidStateError"
        /\ lastCall.ret = "FSMInvalidStateError" =>
              /\ lastCall.name \notin DOMAIN states_
              /\ current_state_ = lastCall.pre_current
              /\ has_initial_state_ = lastCall.pre_init
              /\ lastCall.log = <<>>

\* setCurrentState with an unregistered state name was rejected on an
\* initialized machine whose current state has an on-exit action
C8_Witness ==
    /\ lastCall.op = "setCurrentState"
    /\ lastCall.ret = "FSMInvalidStateError"
    /\ lastCall.name \in StateNames
    /\ lastCall.pre_init
    /\ states_[lastCall.pre_current].on_exit_actions # <<>>

\* setInitialState with an unregistered name was rejected
C8_WitnessInitial ==
    /\ lastCall.op = "setInitialState"
    /\ lastCall.ret = "FSMInvalidStateError"
    /\ states_ # <<>>

\* what setInitialState(name) with a registered name does: current is name,
\* the machine is initialized, and the on-enter actions of name ran once each
\* in registration order with the default event
SetInitialStateEffect ==
    (lastCall.op = "setInitialState" /\ lastCall.name \in DOMAIN states_) =>
        /\ lastCall.ret = "ok"
        /\ current_state_ = lastCall.name
        /\ has_initial_state_
        /\ lastCall.log = [i \in 1..Len(states_[lastCall.name].on_enter_actions) |->
                             LogEntry("enter", lastCall.name, 0, i, DefaultEvent, lastCall.name)]

\* C9 as stated: the effect of setInitialState, and no on-enter action runs
\* before setInitialState is called: a call made on a machine that no
\* setInitialState has initialized runs on-enter actions only if it is
\* setInitialState itself.
C9_NoEnterBeforeSetInitialState ==
    /\ SetInitialStateEffect
    /\ (~lastCall.pre_init /\ OfKind("enter") # <<>>) => lastCall.op = "setInitialState"

\* C9 amended: the effect of setInitialState, and on a machine that is not yet
\* initialized on-enter actions run only in a successful setInitialState or
\* setCurrentState call, which initializes it; while the machine is
\* uninitialized no call has run a callback.
C9_SetInitialState ==
    /\ SetInitialStateEffect
    /\ (~lastCall.pre_init /\ OfKind("enter") # <<>>) =>
          /\ lastCall.op \in {"setInitialState", "setCurrentState"}
          /\ lastCall.ret = "ok"
          /\ has_initial_state_
    /\ ~has_initial_state_ => lastCall.log = <<>>

\* setInitialState ran two on-enter actions of a registered state
C9_Witness ==
    /\ lastCall.op = "setInitialState"
    /\ lastCall.ret = "ok"
    /\ Len(OfKind("enter")) >= 2

\* C10: setCurrentState(name) on an initialized machine whose current state
\* differs from the registered state name runs the on-exit actions of the
\* current state first (it still being current), then makes name current,
\* then runs the on-enter actions of name, whether or not a transition
\* connects the two states.
C10_SetCurrentStateOrder ==
    (/\ lastCall.op = "setCurrentState"
     /\ lastCall.pre_init
     /\ lastCall.name # lastCall.pre_current
     /\ lastCall.name \in DOMAIN states_) =>
        LET old == lastCall.pre_current
            new == lastCall.name
            nx == Len(states_[old].on_exit_actions)
            ne == Len(states_[new].on_enter_actions)
        IN /\ lastCall.ret = "ok"
           /\ current_state_ = new
           /\ has_initial_state_
           /\ Len(lastCall.log) = nx + ne
           /\ \A i \in 1..Len(lastCall.log) :
                 IF i <= nx
                 THEN lastCall.log[i] = LogEntry("exit", old, 0, i, DefaultEvent, old)
                 ELSE lastCall.log[i] = LogEntry("enter", new, 0, i - nx, DefaultEvent, new)

\* setCurrentState moved an initialized machine between two states that no
\* transition connects, running an on-exit and an on-enter action
C10_Witness ==
    /\ lastCall.op = "setCurrentState"
    /\ lastCall.pre_init
    /\ lastCall.ret = "ok"
    /\ lastCall.name # lastCall.pre_current
    /\ OfKind("exit") # <<>>
    /\ OfKind("enter") # <<>>
    /\ \A t \in DOMAIN TransitionsOf(lastCall.pre_current) :
          TransitionsOf(lastCall.pre_current)[t].target_state_ # lastCall.name

----------------------------------------------------------------------------
(* Lock discipline of the thread-safe build *)

\* thread t is inside the body of a public operation
InBody(t) == pc[t] \notin {"idle", "lock"}

----------------------------------------------------------------------------
(* Forced re-entry, forward references, staging *)

\* C11: setCurrentState(name) with name equal to the current state of an
\* initialized machine runs the on-enter actions of that state again, once each
\* in registration order, and no on-exit action; a self-transition fired by
\* process runs no on-enter (and no on-exit) action.
C11_ForcedReentryAsymmetry ==
    /\ (/\ lastCall.op = "setCurrentState"
        /\ lastCall.pre_init
        /\ lastCall.name = lastCall.pre_current) =>
          /\ lastCall.ret = "ok"
          /\ current_state_ = lastCall.name
          /\ lastCall.log = [i \in 1..Len(states_[lastCall.name].on_enter_actions) |->
                               LogEntry("enter", lastCall.name, 0, i, DefaultEvent,
                                        lastCall.name)]
    /\ (/\ ProcessedInitialized
        /\ lastCall.ret = "true"
        /\ Selected # 0
        /\ SelectedTransition.target_state_ = lastCall.pre_current) =>
          /\ OfKind("enter") = <<>>
          /\ OfKind("exit") = <<>>

\* setCurrentState forced the current state, which has an on-exit and an
\* on-enter action, and the on-enter action ran
C11_Witness ==
    /\ lastCall.op = "setCurrentState"
    /\ lastCall.pre_init
    /\ lastCall.name = lastCall.pre_current
    /\ states_[lastCall.name].on_exit_actions # <<>>
    /\ OfKind("enter") # <<>>

\* process fired a self-transition on a state that has an on-enter action
C11_WitnessSelfTransition ==
    /\ ProcessedInitialized
    /\ lastCall.ret = "true"
    /\ Selected # 0
    /\ SelectedTransition.target_state_ = lastCall.pre_current
    /\ states_[lastCall.pre_current].on_enter_actions # <<>>

\* the state names passed to to() by the committed transitions
Targets ==
    UNION {{states_[s].transitions[t].target_state_ : t \in DOMAIN states_[s].transitions} :
              s \in DOMAIN states_}

\* C12: forward-reference tolerance.  Every name a committed transition leads
\* to is registered, so setInitialState and setCurrentState with such a name
\* succeed and a process call whose selected transition leads to it succeeds;
\* no builder commit raises.
C12_ForwardReference ==
    /\ Targets \subseteq DOMAIN states_
    /\ (lastCall.op \in {"setInitialState", "setCurrentState"} /\ lastCall.name \in Targets) =>
          lastCall.ret = "ok"
    /\ (ProcessedInitialized /\ Selected # 0) => lastCall.ret = "true"
    /\ lastCall.op = "builder" => lastCall.ret = "ok"

\* a step that creates, extends or destroys a TransitionBuilder without
\* committing it
StagingStep ==
    /\ pc'[builder] \in {"staging", "dropped"}
    /\ <<pc, frame>>' # <<pc, frame>>

\* every predicate evaluation and action run logged by the most recent call
\* is of a callable stored in the registry
LogIsOfRegistry ==
    \A i \in DOMAIN lastCall.log :
        LET e == lastCall.log[i]
        IN e.kind \in {"pred", "action"} =>
             /\ e.trans \in DOMAIN TransitionsOf(e.state)
             /\ e.idx \in DOMAIN (IF e.kind = "pred"
                                  THEN TransitionsOf(e.state)[e.trans].predicates_
                                  ELSE TransitionsOf(e.state)[e.trans].actions_)

\* C13: a transition that is staged and never committed has no effect on the
\* machine.  from(), predicate(), action() and the destruction of an
\* uncommitted builder change neither the registry nor the current state nor
\* the initialized flag and raise nothing; setInitialState with a name that
\* only from() mentioned still fails; a process call evaluates and runs only
\* callables stored in the registry.
C13_StagedHasNoEffect ==
    [][/\ StagingStep =>
            UNCHANGED <<states_, current_state_, has_initial_state_, lastCall>>
       /\ (lastCall'.op = "setInitialState" /\ lastCall'.name \notin DOMAIN states_') =>
            /\ lastCall'.ret = "FSMInvalidStateError"
            /\ UNCHANGED <<current_state_, has_initial_state_>>
       /\ LogIsOfRegistry']_vars

\* a builder from(X) holds a staged predicate and a staged action, X is not
\* registered, and setInitialState(X) has just failed
C13_Witness ==
    /\ pc[builder] = "staging"
    /\ staged.predicates_ # <<>>
    /\ staged.actions_ # <<>>
    /\ frame[builder].name \notin DOMAIN states_
    /\ lastCall.op = "setInitialState"
    /\ lastCall.name = frame[builder].name
    /\ lastCall.ret = "FSMInvalidStateError"

\* a builder was destroyed uncommitted and a later process call on the
\* initialized machine found no transition
C13_WitnessDropped ==
    /\ pc[builder] = "dropped"
    /\ ProcessedInitialized
    /\ lastCall.ret = "false"
    /\ lastCall.log = <<>>

----------------------------------------------------------------------------
(* Failed calls, registry invariant *)

\* C14: when the transition selected by process has a target that is not in
\* the registry, or has no target, the call raises, none of the transition's
\* actions and no on-exit or on-enter action has run, and current is unchanged.
C14_FailedProcessIsAtomic ==
    (/\ ProcessedInitialized
     /\ Selected # 0
     /\ SelectedTransition.target_state_ \notin DOMAIN states_) =>
        /\ lastCall.ret \in {"FSMInvalidStateError", "FSMStateNotFoundError"}
        /\ Callbacks = <<>>
        /\ current_state_ = lastCall.pre_current
        /\ has_initial_state_

\* process selected a targetless transition that carries an action, on a state
\* that has an on-exit action, and raised
C14_Witness ==
    /\ ProcessedInitialized
    /\ Selected # 0
    /\ SelectedTransition.target_state_ \notin DOMAIN states_
    /\ SelectedTransition.actions_ # <<>>
    /\ states_[lastCall.pre_current].on_exit_actions # <<>>
    /\ lastCall.ret = "FSMInvalidStateError"

\* C15: after any sequence of builder calls every transition stored in the
\* registry has a target state, whatever name was passed to to(), the empty
\* string included.
C15_EveryTransitionHasTarget ==
    \A s \in DOMAIN states_ :
        \A t \in DOMAIN states_[s].transitions :
            hasTargetState(states_[s].transitions[t])

----------------------------------------------------------------------------
(* StringInterner *)

\* C16: any two handles returned by intern, whatever calls came between them
\* and whichever overloads returned them, are the identical handle (same
\* address) when the texts interned are equal and different handles when the
\* texts differ; a handle views the text that was interned, so two handles
\* compare equal iff their text is equal.
C16_EqualTextSameHandle ==
    /\ \A h \in returned :
          /\ h.text = h.arg
          /\ [text |-> h.text, addr |-> h.data] \in interned_strings_
    /\ \A h1, h2 \in returned : (h1.arg = h2.arg) <=> (h1.data = h2.data)

\* handles for two different texts have been returned, and a call of the
\* string_view overload is about to return, for a text interned before, the
\* handle returned before
C16_Witness ==
    /\ Cardinality(returned) >= 2
    /\ \E t \in Threads :
          /\ pc[t] = "return"
          /\ frame[t].op = "intern_view"
          /\ \E h \in returned : h.arg = frame[t].name /\ h.data = frame[t].sel

\* C17: in the thread-safe build intern's lookup-or-insert is one atomic step:
\* between a thread's search and its insertion no other thread is inside
\* intern, the set never holds two entries for one text, and concurrent calls
\* for the same text return the identical handle.
C17_AtomicLookupOrInsert ==
    /\ \A t \in Threads : pc[t] \in {"find", "insert", "return"} => interner_mutex_ = t
    /\ \A e1, e2 \in interned_strings_ : e1.text = e2.text => e1 = e2
    /\ \A h1, h2 \in returned : h1.arg = h2.arg => h1.data = h2.data

\* a thread has just inserted a text that was not present while the other
\* thread is blocked in intern with the same text
C17_Witness ==
    \E t, u \in Threads :
        /\ pc[t] = "return"
        /\ pc[u] = "lock"
        /\ frame[u].name = frame[t].name
        /\ \A h \in returned : h.arg # frame[t].name

----------------------------------------------------------------------------
(* Concurrency of the machine *)

\* every thread has issued all its process calls and they have all returned
StressDone == \A t \in Threads : pc[t] = "idle" /\ calls[t] = CallsPerThread

\* C18: with N threads each issuing M process calls on a thread-safe machine
\* in which every state has an always-matching transition carrying k actions
\* that increment a shared counter, every call returns true and when all calls
\* have returned the counter is exactly N*M*k.
C18_StressCount ==
    /\ \A t \in Threads : pc[t] = "unlock" => frame[t].ret = "true"
    /\ counter <= Cardinality(Threads) * CallsPerThread * ActionsPerTransition
    /\ StressDone =>
          counter = Cardinality(Threads) * CallsPerThread * ActionsPerTransition

\* all calls of all threads have returned
C18_Witness == StressDone /\ counter > 0

\* a thread is about to run its transition's actions while the other thread
\* waits for the lock with a call of its own
C18_WitnessContention ==
    \E t, u \in Threads : pc[t] = "actions" /\ pc[u] = "lock" /\ calls[u] = CallsPerThread

\* C19: on a thread-safe machine that has been initialized to a registered
\* state, whatever the interleaving of the threads' calls, a process or
\* getCurrentState call raises nothing, and the value getCurrentState returns
\* is a registered state of the machine ("A" or "B").
C19_ConcurrentAccessIsSafe ==
    \A t \in Threads :
        (/\ pc[t] = "unlock"
         /\ has_initial_state_
         /\ frame[t].op \in {"process", "getCurrentState"}) =>
            /\ frame[t].ret \in {"true", "false", "ok"}
            /\ frame[t].op = "getCurrentState" =>
                  /\ frame[t].val \in DOMAIN states_
                  /\ frame[t].val \in {"A", "B"}
                  /\ frame[t].val = current_state_

\* getCurrentState returns "B" in one thread, after a process call moved the
\* machine there, while the other thread waits for the lock with a process call
C19_Witness ==
    \E t, u \in Threads :
        /\ pc[t] = "unlock"
        /\ frame[t].op = "getCurrentState"
        /\ frame[t].ret = "ok"
        /\ frame[t].val = "B"
        /\ pc[u] = "lock"
        /\ frame[u].op = "process"

----------------------------------------------------------------------------
(* Scenarios *)

\* the first n entries of the trace, one field of each
TraceOf(field, n) == [i \in 1..n |-> trace[i][field]]

\* C20: on the turnstile (LOCKED-coin->UNLOCKED, UNLOCKED-push->LOCKED,
\* LOCKED-push->ERROR, ERROR-coin->UNLOCKED committed in that order, initial
\* state LOCKED) the events [coin, push, push, coin] make every process call
\* return true and the states after the calls are UNLOCKED, LOCKED, ERROR,
\* UNLOCKED.
C20_Turnstile ==
    (Len(trace) >= 4 /\ TraceOf("ev", 4) = <<COIN, PUSH, PUSH, COIN>>) =>
        /\ TraceOf("ret", 4) = <<"true", "true", "true", "true">>
        /\ TraceOf("state", 4) = <<"UNLOCKED", "LOCKED", "ERROR", "UNLOCKED">>

\* the four events have just been processed
C20_Witness ==
    /\ Len(trace) = 4
    /\ TraceOf("ev", 4) = <<COIN, PUSH, PUSH, COIN>>
    /\ current_state_ = "UNLOCKED"

\* the registry after the step holds the commit of frame f completely
CommittedCompletely(f) ==
    /\ f.name \in DOMAIN states_'
    /\ DOMAIN states_ \subseteq DOMAIN states_'
    /\ IF f.op = "to"
       THEN LET old == IF f.name \in DOMAIN states_ THEN states_[f.name].transitions ELSE <<>>
            IN /\ states_'[f.name].transitions = Append(old, f.tr)
               /\ f.tr.target_state_ \in DOMAIN states_'
       ELSE LET old == IF f.name \in DOMAIN states_ THEN states_[f.name] ELSE NewStateData
                added == IF f.action = NullFn THEN 0 ELSE 1
            IN /\ Len(states_'[f.name].on_enter_actions) =
                     Len(old.on_enter_actions) + (IF f.op = "onEnter" THEN added ELSE 0)
               /\ Len(states_'[f.name].on_exit_actions) =
                     Len(old.on_exit_actions) + (IF f.op = "onExit" THEN added ELSE 0)

\* C21: live editing is atomic.  The registry changes only in one step of a
\* thread that holds the machine's mutex for a commit, no other thread being
\* inside an operation, and that step makes the commit visible completely
\* (source and target registered, the staged predicates and actions all
\* attached); staging a commit does not touch the machine; while a process call
\* is between its first and last step the registry does not change.
C21_LiveEditIsAtomic ==
    [][/\ states_' # states_ =>
            \E t \in Threads :
                /\ pc[t] = "commit"
                /\ mutex_ = t
                /\ pc'[t] = "unlock"
                /\ CommittedCompletely(frame[t])
                /\ \A u \in Threads \ {t} : ~InBody(u)
       /\ (\E t \in Threads : pc[t] = "idle" /\ pc'[t] = "lock") =>
            states_' = states_
       /\ (\E t \in Threads : frame[t].op = "process" /\ InBody(t)) =>
            states_' = states_]_vars

\* a transition with a predicate and an action staged on it has just been
\* committed from "B" while the other thread is inside a process call that is
\* waiting for the lock
C21_Witness ==
    /\ pc[builder] = "unlock"
    /\ frame[builder].op = "to"
    /\ "B" \in DOMAIN states_
    /\ \E i \in DOMAIN states_["B"].transitions :
          /\ states_["B"].transitions[i].predicates_ # <<>>
          /\ states_["B"].transitions[i].actions_ # <<>>
    /\ \E u \in Threads : pc[u] = "lock" /\ frame[u].op = "process"

\* C22: a transition matches exactly when its predicate list is empty or every
\* predicate is true for the event; the predicates are invoked in the order
\* they were added, each with the event, up to and including the first one
\* that is false: every earlier one was invoked, no later one is.
C22_PredicatesInOrderShortCircuit ==
    lastCall.op = "predicatesPass" =>
        LET preds == transition.predicates_
            n == Len(lastCall.log)
        IN /\ (lastCall.ret = "true") <=>
                  (preds = <<>> \/ \A i \in DOMAIN preds : PredCall(preds[i], lastCall.ev))
           /\ n <= Len(preds)
           /\ \A k \in 1..n :
                 /\ lastCall.log[k].kind = "pred"
                 /\ lastCall.log[k].idx = k
                 /\ lastCall.log[k].ev = lastCall.ev
           /\ \A k \in 1..(n - 1) : PredCall(preds[k], lastCall.ev)
           /\ IF lastCall.ret = "true" THEN n = Len(preds)
              ELSE n >= 1 /\ ~PredCall(preds[n], lastCall.ev)

\* of three predicates the first is true and the second false: the first two
\* were asked, the third was not
C22_Witness ==
    /\ lastCall.op = "predicatesPass"
    /\ lastCall.ret = "false"
    /\ Len(lastCall.log) = 2
    /\ Len(transition.predicates_) = 3

\* every predicate is true: all are asked, the transition matches
C22_WitnessAllTrue ==
    /\ lastCall.op = "predicatesPass"
    /\ lastCall.ret = "true"
    /\ Len(lastCall.log) = Len(transition.predicates_)
    /\ Len(transition.predicates_) >= 2

\* C24: adding a null predicate or action to a transition, or a null on-enter
\* or on-exit action to a state, returns normally and leaves the list as it
\* was; a transition that was only given null predicates matches every event,
\* and one only given null actions invokes nothing when executed.
C24_NullCallablesIgnored ==
    [][/\ lastCall'.val = NullFn =>
            /\ lastCall'.ret = "ok"
            /\ lastCall'.op \in {"addPredicate", "addAction"} => transition' = transition
            /\ lastCall'.op \in {"addOnEnterAction", "addOnExitAction"} =>
                  LET old == IF lastCall'.name \in DOMAIN states_
                             THEN states_[lastCall'.name] ELSE NewStateData
                  IN /\ states_'[lastCall'.name].on_enter_actions = old.on_enter_actions
                     /\ states_'[lastCall'.name].on_exit_actions = old.on_exit_actions
                     /\ states_'[lastCall'.name].transitions = old.transitions
       /\ (lastCall'.op = "predicatesPass" /\ transition.predicates_ = <<>>) =>
            lastCall'.ret = "true" /\ lastCall'.log = <<>>
       /\ (lastCall'.op = "executeActions" /\ transition.actions_ = <<>>) =>
            lastCall'.log = <<>>]_vars

\* a null predicate has just been handed to a transition that holds one
\* predicate, on a machine some state of which holds an on-exit action
C24_Witness ==
    /\ lastCall.op = "addPredicate"
    /\ lastCall.val = NullFn
    /\ Len(transition.predicates_) = 1
    /\ \E s \in DOMAIN states_ : states_[s].on_exit_actions # <<>>

\* predicatesPass on a transition that holds no predicate
C24_WitnessMatches ==
    /\ lastCall.op = "predicatesPass"
    /\ transition.predicates_ = <<>>
    /\ lastCall.ret = "true"

\* C23: when process fires a transition, every action of that transition is
\* invoked exactly once, in the order the actions were added, none being
\* skipped, and each is handed the event that was passed to process.
C23_ActionsAllInOrder ==
    (ProcessedInitialized /\ lastCall.ret = "true" /\ Selected # 0) =>
        LET acts == OfKind("action")
        IN /\ Len(acts) = Len(SelectedTransition.actions_)
           /\ \A i \in DOMAIN acts :
                 /\ acts[i].idx = i
                 /\ acts[i].trans = Selected
                 /\ acts[i].state = lastCall.pre_current
                 /\ acts[i].ev = lastCall.ev

\* a transition holding two actions fired on event 1
C23_Witness ==
    /\ ProcessedInitialized
    /\ lastCall.ret = "true"
    /\ lastCall.ev = 1
    /\ Selected # 0
    /\ Len(OfKind("action")) >= 2

\* C26: whatever builder commits, setInitialState, setCurrentState and process
\* calls were made, an initialized machine's current state is a key of the
\* registry, so no process call on an initialized machine fails to find its
\* current state.
C26_CurrentIsRegistered ==
    /\ has_initial_state_ => current_state_ \in DOMAIN states_
    /\ ProcessedInitialized =>
          /\ lastCall.pre_current \in DOMAIN states_
          /\ lastCall.ret # "FSMStateNotFoundError"

\* a process call on a machine that was forced into a state and has since been
\* given further definitions
C26_Witness ==
    /\ ProcessedInitialized
    /\ lastCall.ret = "true"
    /\ current_state_ # lastCall.pre_current
    /\ Used = MaxDefs

\* sequence a is an initial part of sequence b
IsPrefix(a, b) == Len(a) <= Len(b) /\ \A i \in DOMAIN a : a[i] = b[i]

\* every state of registry old is in registry new, with everything it held
Grows(old, new) ==
    /\ DOMAIN old \subseteq DOMAIN new
    /\ \A s \in DOMAIN old :
          /\ IsPrefix(old[s].transitions, new[s].transitions)
          /\ IsPrefix(old[s].on_enter_actions, new[s].on_enter_actions)
          /\ IsPrefix(old[s].on_exit_actions, new[s].on_exit_actions)

C29_TargetsRegistered ==
    /\ (Targets \ {Empty}) \subseteq DOMAIN states_
    /\ (ProcessedInitialized /\ Selected # 0 /\ hasTargetState(SelectedTransition)) =>
          /\ SelectedTransition.target_state_ \in DOMAIN states_
          /\ lastCall.ret = "true"

\* process fired a transition into a state that no from(), onEnter() or
\* onExit() has named: it is registered as a target only
C29_Witness ==
    /\ ProcessedInitialized
    /\ lastCall.ret = "true"
    /\ current_state_ # lastCall.pre_current
    /\ states_[current_state_] = NewStateData

\* C25: move construction and move assignment transfer the registry, the
\* current state and the initialized flag.  The object the machine was moved
\* to, also through a chain of moves, answers getCurrentState and every
\* process call exactly as the machine would have, had it never been moved.
C25_MoveTransfers ==
    LET o == fsms[owner]
    IN /\ o.life = "live"
       /\ o.states_ = states_
       /\ o.current_state_ = current_state_
       /\ o.has_initial_state_ = has_initial_state_
       /\ getCurrentStateImpl(o.current_state_, o.has_initial_state_)
             = getCurrentStateImpl(current_state_, has_initial_state_)
       /\ \A event \in Events :
             processImpl(o.states_, o.current_state_, o.has_initial_state_, event)
                = processImpl(states_, current_state_, has_initial_state_, event)

\* the machine was built and initialized in fsm1, moved to fsm2 and from there
\* to fsm3, and fsm3 has since fired a transition
C25_Witness ==
    /\ owner = "fsm3"
    /\ fsms["fsm1"].life = "moved"
    /\ fsms["fsm2"].life = "moved"
    /\ ProcessedInitialized
    /\ lastCall.ret = "true"
    /\ fsms[owner].current_state_ # lastCall.pre_current

\* what one step() call that leaves state s by its transition number t runs
\* before it assigns: the transition's actions, then the on-exit actions of s
StepCallbacks(s, t) ==
    executeActions(states_[s].transitions[t], s, t, DefaultEvent)
        \o executeOnExitActions(states_, s, DefaultEvent, s)

\* C27: the historical step() takes only a shared lock for the selection, the
\* transition's actions and the on-exit actions, so a second step() is admitted
\* while the first is there: every call that has selected a state-changing
\* transition has run the transition's actions and the on-exit actions of the
\* state it read, whatever the other call did, and only the assignment is
\* exclusive.  A call between its two locks may hold a stale current value.
C27_StepRace ==
    /\ \A t \in Threads :
          /\ pc[t] \in {"step_unlock", "step_upgrade", "step_assign"} =>
                frame[t].log = StepCallbacks(frame[t].val, frame[t].sel)
          /\ (HoldsShared(t) /\ pc[t] # "step_select") => frame[t].val = current_state_
          /\ mutex_ = t => \A u \in Threads \ {t} : ~HoldsShared(u) /\ pc[u] # "step_assign"
    /\ mutex_ # NoThread => pc[mutex_] \in {"step_assign", "step_return"}

\* during one visit to "A" both calls hold the shared lock, both selected the
\* transition out of "A", and both have run its action and the on-exit action
\* of "A": each ran twice for a single visit
C27_Witness ==
    /\ current_state_ = "A"
    /\ \A t \in Threads :
          /\ pc[t] = "step_unlock"
          /\ frame[t].val = "A"
          /\ \E i \in DOMAIN frame[t].log : frame[t].log[i].kind = "action"
          /\ \E i \in DOMAIN frame[t].log : frame[t].log[i].kind = "exit"

\* a call holds the unique lock and is about to assign the target it selected
\* from "A", although the other call has already moved the machine to "B"
C27_WitnessStale ==
    \E t \in Threads :
        /\ pc[t] = "step_assign"
        /\ frame[t].val = "A"
        /\ current_state_ = "B"

\* positions of a call between taking the lock and giving it up
InCall == {"process", "preds", "actions", "exit", "assign", "enter", "setInitialState",
           "setCurrentState", "nested_lock", "nested_body", "unlock"}

\* C30: in the thread-safe build every callback is invoked while the calling
\* thread owns the machine's std::mutex, so the operation a callback calls on
\* the same machine is never granted the lock: it never runs and the callback
\* never returns to its caller.  In the build without the mutex the same
\* nested call is never held up: it runs, and the callback returns.
C30_ReentrantCallback ==
    \A t \in Threads :
        IF mutex_ # NoMutex
        THEN /\ pc[t] \in InCall => mutex_ = t
             /\ pc[t] # "nested_body"
             /\ ~frame[t].returned
             /\ pc[t] = "nested_lock" => ~ENABLED NestedAcquire(t)
        ELSE /\ pc[t] = "nested_lock" => ENABLED NestedAcquire(t)
             /\ pc[t] = "nested_body" => ENABLED NestedBody(t)

\* thread-safe build: an on-exit action run by process has called
\* setCurrentState on the machine and waits for the mutex its own thread owns
C30_Witness ==
    /\ mutex_ = builder
    /\ pc[builder] = "nested_lock"
    /\ frame[builder].op = "process"
    /\ frame[builder].kind = "exit"
    /\ frame[builder].nested.op = "setCurrentState"

\* build without the mutex: the same callback has returned and the process
\* call that invoked it has completed
C30_WitnessCompletes ==
    /\ mutex_ = NoMutex
    /\ pc[builder] = "unlock"
    /\ frame[builder].op = "process"
    /\ frame[builder].kind = "exit"
    /\ frame[builder].nested.op = "setCurrentState"
    /\ frame[builder].returned
    /\ frame[builder].ret = "true"

\* C33: setCurrentState(name) on a machine that was never initialized, name
\* being registered, succeeds: no on-exit action runs, name becomes current,
\* the machine is initialized (process and getCurrentState no longer raise
\* FSMNotInitializedError) and the on-enter actions of name have run.
C33_SetCurrentStateInitializes ==
    (/\ lastCall.op = "setCurrentState"
     /\ ~lastCall.pre_init
     /\ lastCall.name \in DOMAIN states_) =>
        /\ lastCall.ret = "ok"
        /\ OfKind("exit") = <<>>
        /\ current_state_ = lastCall.name
        /\ has_initial_state_
        /\ lastCall.log = [i \in 1..Len(states_[lastCall.name].on_enter_actions) |->
                             LogEntry("enter", lastCall.name, 0, i, DefaultEvent, lastCall.name)]
        /\ getCurrentStateImpl(current_state_, has_initial_state_) =
              [ret |-> "ok", val |-> lastCall.name]
        /\ \A event \in Events :
              processImpl(states_, current_state_, has_initial_state_, event).ret
                 # "FSMNotInitializedError"

\* setCurrentState initialized a machine in a state that has an on-enter and
\* an on-exit action
C33_Witness ==
    /\ lastCall.op = "setCurrentState"
    /\ ~lastCall.pre_init
    /\ lastCall.ret = "ok"
    /\ OfKind("enter") # <<>>
    /\ states_[current_state_].on_exit_actions # <<>>

\* C34: setInitialState(name) on a machine that is already initialized makes
\* name current and runs the on-enter actions of name, and runs no on-exit
\* action of the previous current state, also when name differs from it.
C34_SetInitialStateNoExit ==
    (/\ lastCall.op = "setInitialState"
     /\ lastCall.pre_init
     /\ lastCall.name \in DOMAIN states_) =>
        /\ lastCall.ret = "ok"
        /\ current_state_ = lastCall.name
        /\ OfKind("exit") = <<>>
        /\ lastCall.log = [i \in 1..Len(states_[lastCall.name].on_enter_actions) |->
                             LogEntry("enter", lastCall.name, 0, i, DefaultEvent, lastCall.name)]

\* setInitialState moved an initialized machine out of a state that has an
\* on-exit action into another state that has an on-enter action
C34_Witness ==
    /\ lastCall.op = "setInitialState"
    /\ lastCall.pre_init
    /\ lastCall.ret = "ok"
    /\ lastCall.name # lastCall.pre_current
    /\ states_[lastCall.pre_current].on_exit_actions # <<>>
    /\ OfKind("enter") # <<>>

\* C38: a machine that is moved from keeps its initialized flag and its
\* current state while its registry is handed to the destination; process on
\* a moved-from machine that was initialized raises FSMStateNotFoundError
\* (not FSMNotInitializedError) and leaves it unchanged, and getCurrentState
\* on it returns the state it was in when it was moved.
C38_MovedFromKeepsCurrent ==
    [][/\ owner' # owner =>
             /\ fsms'[owner].life = "moved"
             /\ DOMAIN fsms'[owner].states_ = {}
             /\ fsms'[owner].current_state_ = fsms[owner].current_state_
             /\ fsms'[owner].has_initial_state_ = fsms[owner].has_initial_state_
             /\ fsms'[owner'].states_ = fsms[owner].states_
       /\ (lastCall'.name \in Objects /\ lastCall' # lastCall) =>
             /\ fsms' = fsms
             /\ lastCall'.pre_init =>
                  /\ lastCall'.op = "process" => lastCall'.ret = "FSMStateNotFoundError"
                  /\ lastCall'.op = "getCurrentState" =>
                        /\ lastCall'.ret = "ok"
                        /\ lastCall'.val = fsms[lastCall'.name].current_state_]_vars

\* fsm1 was built with a transition out of "A", initialized at "A" and moved
\* to fsm2; process on fsm1 has raised FSMStateNotFoundError
C38_Witness ==
    /\ lastCall.op = "process"
    /\ lastCall.name = "fsm1"
    /\ lastCall.pre_init
    /\ lastCall.ret = "FSMStateNotFoundError"
    /\ fsms["fsm1"].life = "moved"
    /\ fsms["fsm1"].current_state_ = "A"
    /\ owner = "fsm2"
    /\ "A" \in DOMAIN fsms["fsm2"].states_
    /\ fsms["fsm2"].states_["A"].transitions # <<>>

\* getCurrentState on the moved-from fsm1 has returned "A", the state fsm1 was
\* in when it was moved
C38_WitnessGetCurrentState ==
    /\ lastCall.op = "getCurrentState"
    /\ lastCall.name = "fsm1"
    /\ lastCall.ret = "ok"
    /\ lastCall.val = "A"
    /\ fsms["fsm1"].life = "moved"
    /\ "A" \in DOMAIN fsms[owner].states_

\* thread t holds the mutex of its destination and waits for the mutex of its
\* source, which thread u holds
WaitsFor(t, u) ==
    /\ pc[t] = "lock_other"
    /\ mutex_[frame[t].this] = t
    /\ mutex_[frame[t].other] = u

\* C31: move assignment locks the destination's mutex and then the source's;
\* whatever the interleaving of fsm1 = std::move(fsm3) and
\* fsm3 = std::move(fsm1) on two threads, there is no state in which each
\* thread holds one mutex and waits for the one the other thread holds, so
\* both assignments complete.
C31_NoLockOrderDeadlock ==
    \A t, u \in Threads : t # u => ~(WaitsFor(t, u) /\ WaitsFor(u, t))

\* position in trace of the from() call that created builder b, 0 if none
OpenedAt(b) ==
    IF \E i \in DOMAIN trace : trace[i].op = "from" /\ trace[i].builder = b
    THEN CHOOSE i \in DOMAIN trace : trace[i].op = "from" /\ trace[i].builder = b
    ELSE 0

\* position of the earliest committed transition of state accepting the
\* event, in the order of the to() calls; 0 if none
FirstCommitted(state, event) ==
    LET m == {i \in DOMAIN CommittedFrom(state) : Passes(CommittedFrom(state)[i], event)}
    IN IF m = {} THEN 0 ELSE CHOOSE i \in m : \A j \in m : i <= j

\* C35: the definition order process uses is the order of the to() commits,
\* not of the from() calls.  The transitions stored for a state are exactly
\* the transitions committed from it, in the order of their to() calls, so
\* commits from another state never change that order; process evaluates them
\* from the first committed on and takes the earliest committed transition
\* that accepts the event, whichever builder was opened first.
C35_CommitOrder ==
    /\ \A s \in StateNames : TransitionsOf(s) = CommittedFrom(s)
    /\ ProcessedInitialized =>
          LET k == FirstCommitted(lastCall.pre_current, lastCall.ev)
              preds == OfKind("pred")
          IN /\ \A i \in DOMAIN preds : i > 1 => preds[i - 1].trans <= preds[i].trans
             /\ preds # <<>> => preds[1].trans = 1
             /\ IF k = 0
                THEN lastCall.ret = "false" /\ current_state_ = lastCall.pre_current
                ELSE /\ lastCall.ret = "true"
                     /\ current_state_ = CommittedFrom(lastCall.pre_current)[k].target_state_

\* tb1 was opened from "A" before tb2, tb2 was committed (to "B", with a
\* predicate) before tb1 (to "A"); process(1) at "A" evaluated tb2's predicate
\* first and took tb2's transition
C35_Witness ==
    /\ OpenedAt("tb1") # 0
    /\ OpenedAt("tb1") < OpenedAt("tb2")
    /\ Len(Commits) = 2
    /\ \A i \in 1..2 : Commits[i].state = "A"
    /\ Commits[1].builder = "tb2"
    /\ Commits[2].builder = "tb1"
    /\ Commits[1].tr.target_state_ = "B"
    /\ Commits[1].tr.predicates_ # <<>>
    /\ Commits[2].tr.target_state_ = "A"
    /\ Commits[2].tr.predicates_ = <<>>
    /\ ProcessedInitialized
    /\ lastCall.pre_current = "A"
    /\ lastCall.ev = 1
    /\ OfKind("pred") # <<>>
    /\ current_state_ = "B"

\* the two builders were opened from different states and committed in the
\* reverse order of their creation
C35_WitnessOtherState ==
    /\ OpenedAt("tb1") # 0
    /\ OpenedAt("tb1") < OpenedAt("tb2")
    /\ Len(Commits) = 2
    /\ Commits[1].builder = "tb2"
    /\ Commits[2].builder = "tb1"
    /\ Commits[1].state # Commits[2].state
    /\ ProcessedInitialized
    /\ lastCall.ret = "true"

\* the step is a to() call on builder b
IsTo(b) ==
    /\ Len(trace') = Len(trace) + 1
    /\ trace'[Len(trace')].op = "to"
    /\ trace'[Len(trace')].builder = b

\* C39: to() consumes the staged transition.  After to() the builder holds no
\* predicate and no action; a to() that directly follows a to() on the same
\* builder stores one more transition for the same source state, which has no
\* predicate and no action and so accepts every event.
C39_ToConsumesStaged ==
    [][\A b \in Builders : IsTo(b) =>
          LET s == frame[b].from_state_
              stored == states_'[s].transitions
          IN /\ frame'[b].from_state_ = s
             /\ frame'[b].transition_.predicates_ = <<>>
             /\ frame'[b].transition_.actions_ = <<>>
             /\ Len(stored) = Len(TransitionsOf(s)) + 1
             /\ pc[b] = "committed" =>
                   /\ stored[Len(stored)].predicates_ = <<>>
                   /\ stored[Len(stored)].actions_ = <<>>
                   /\ \A event \in Events : Passes(stored[Len(stored)], event)]_vars

\* tb1 staged a predicate, was committed to "B" and then committed again to
\* "A": "A" holds the guarded transition and an unguarded second one, and
\* process(0), which the predicate rejects, took the second
C39_Witness ==
    /\ Len(Commits) = 2
    /\ \A i \in 1..2 : Commits[i].builder = "tb1" /\ Commits[i].state = "A"
    /\ Commits[1].tr.predicates_ # <<>>
    /\ Commits[1].tr.target_state_ = "B"
    /\ Commits[2].tr.predicates_ = <<>>
    /\ Commits[2].tr.target_state_ = "A"
    /\ pc["tb1"] = "committed"
    /\ ProcessedInitialized
    /\ lastCall.ev = 0
    /\ lastCall.pre_current = "A"
    /\ lastCall.ret = "true"

\* the on-exit and on-enter invocations thread t makes in the step
HooksRun(t) ==
    IF pc'[t] # "idle" /\ IsPrefix(frame[t].log, frame'[t].log)
    THEN SelectSeq(SubSeq(frame'[t].log, Len(frame[t].log) + 1, Len(frame'[t].log)),
                   LAMBDA x : x.kind \in {"exit", "enter"})
    ELSE <<>>

\* C36: in thread-safe mode, however process and setCurrentState calls of
\* several threads interleave, the on-exit and on-enter invocations follow a
\* single path.  A thread runs them only while it owns the mutex and no other
\* thread is inside a call; every on-exit action runs for the state that is
\* current at that moment, every on-enter action for the state that is
\* current once the step is done; and from the on-exit actions of a process
\* call to its on-enter actions the thread keeps the mutex, so no callback of
\* another call comes in between.
C36_HooksFollowOnePath ==
    [][\A t \in Threads :
          /\ HooksRun(t) # <<>> =>
                /\ mutex_ = t
                /\ mutex_' = t
                /\ \A u \in Threads \ {t} : ~InBody(u)
                /\ \A i \in DOMAIN HooksRun(t) :
                      LET e == HooksRun(t)[i]
                      IN /\ e.kind = "exit" =>
                               /\ has_initial_state_
                               /\ e.state = current_state_
                               /\ \A j \in DOMAIN HooksRun(t) :
                                     (j > i /\ HooksRun(t)[j].kind = "enter") =>
                                         HooksRun(t)[j].state # e.state
                         /\ e.kind = "enter" => e.state = current_state_'
          /\ pc[t] \in {"assign", "enter"} =>
                /\ mutex_ = t
                /\ frame[t].name # current_state_ \/ pc[t] = "enter"
                /\ \A u \in Threads \ {t} : ~InBody(u) /\ HooksRun(u) = <<>>
          /\ pc[t] = "enter" => current_state_ = frame[t].name]_vars

\* a process call has run the on-exit action of "A" and then the on-enter
\* action of "B", which is now current, while the other thread's
\* setCurrentState call waits for the mutex
C36_Witness ==
    \E t, u \in Threads :
        /\ pc[t] = "unlock"
        /\ frame[t].op = "process"
        /\ current_state_ = "B"
        /\ \E i, j \in DOMAIN frame[t].log :
              /\ i < j
              /\ frame[t].log[i].kind = "exit" /\ frame[t].log[i].state = "A"
              /\ frame[t].log[j].kind = "enter" /\ frame[t].log[j].state = "B"
        /\ pc[u] = "lock"
        /\ frame[u].op = "setCurrentState"

\* a setCurrentState call has run the on-exit action of "A" and the on-enter
\* action of "B" while the other thread's process call waits for the mutex
C36_WitnessSetCurrentState ==
    \E t, u \in Threads :
        /\ pc[t] = "unlock"
        /\ frame[t].op = "setCurrentState"
        /\ Len(frame[t].log) = 2
        /\ frame[t].log[1].kind = "exit" /\ frame[t].log[1].state = "A"
        /\ frame[t].log[2].kind = "enter" /\ frame[t].log[2].state = "B"
        /\ pc[u] = "lock"
        /\ frame[u].op = "process"

\* RED, GREEN, YELLOW, RED, ... of length n
LightCycle(n) == [i \in 1..n |-> Lights[((i - 1) % 3) + 1]]

\* C37: a state's on-enter actions run exactly once for each setInitialState
\* into it and each state-changing transition into it, and not during a
\* process call that returns false.  For the traffic light: setInitialState
\* appends the initial state to the recorded on-enter trace, a process call
\* that returns true appends the state it changed to, every other step leaves
\* the trace alone, and the trace reads RED, GREEN, YELLOW, RED, ... and ends
\* with the current state.
C37_EnterTrace ==
    [][/\ IF lastCall' # lastCall /\ lastCall'.op = "setInitialState" /\ lastCall'.ret = "ok"
          THEN trace' = Append(trace, lastCall'.name)
          ELSE IF /\ lastCall' # lastCall
                  /\ lastCall'.op = "process"
                  /\ lastCall'.ret = "true"
                  /\ current_state_' # current_state_
          THEN trace' = Append(trace, current_state_')
          ELSE trace' = trace
       /\ (lastCall'.op = "process" /\ lastCall'.ret = "false") =>
             /\ trace' = trace
             /\ current_state_' = current_state_
       /\ trace' = LightCycle(Len(trace'))
       /\ has_initial_state_' =>
             /\ trace' # <<>>
             /\ trace'[Len(trace')] = current_state_']_vars

\* two full cycles: the events vector holds the seven entries the test
\* expects, after process calls that returned false in between
C37_Witness ==
    /\ trace = <<"RED", "GREEN", "YELLOW", "RED", "GREEN", "YELLOW", "RED">>
    /\ lastCall.op = "process"
    /\ lastCall.ret = "true"
    /\ current_state_ = "RED"

\* process() returned false in GREEN with the timer at 4, and the events vector
\* still ends with the entry of GREEN
C37_WitnessFalse ==
    /\ lastCall.op = "process"
    /\ lastCall.ret = "false"
    /\ lastCall.ev = 4
    /\ current_state_ = "GREEN"
    /\ trace = <<"RED", "GREEN">>

\* the state of the generator's machine after n more cycles at the end of the
\* input, from state s
RECURSIVE AfterEof(_, _)
AfterEof(s, n) ==
    IF n = 0 \/ s = "END" THEN s
    ELSE LET it == FindRow(states_, s, NullOpt)
         IN IF it = 0 THEN s ELSE AfterEof(states_[it].new_state, n - 1)

\* C40: execute() reaches State::END and returns on every finite input.  It
\* never raises the 'No suitable transition found' error, and once the input
\* is exhausted the cycles that follow take the machine to END from whichever
\* state it is in, IN_CODE and IN_HEADER included.
C40_ExecuteReachesEnd ==
    /\ pc # "std::runtime_error"
    /\ (pc = "execute" /\ counter = Len(trace)) =>
          AfterEof(current_state_, Len(states_)) = "END"

\* the callback whose exception ended a call with invocation log
Raiser(log) == log[Len(log)]

\* C32: callback failures are not rolled back.  When a transition action or
\* an on-exit action raises during process, current is still the state the
\* callbacks ran in, and the callbacks invoked before it stay run; when an
\* on-enter action raises during process, setCurrentState or setInitialState,
\* current is already the new state and the machine is initialized.  In both
\* cases the call gives the mutex up, and the machine is left in that state
\* for the calls that follow.
C32_NoRollback ==
    /\ \A t \in Threads :
          /\ (pc[t] = "unlock" /\ frame[t].ret = "exception") =>
                LET log == frame[t].log
                IN /\ log # <<>>
                   /\ mutex_ = t
                   /\ Raiser(log).kind \in {"action", "exit", "enter"}
                   /\ Raiser(log).kind \in {"action", "exit"} =>
                         /\ current_state_ = Raiser(log).cur
                         /\ current_state_ = Raiser(log).state
                   /\ (Raiser(log).kind = "exit" /\ frame[t].op = "process") =>
                         log = StepCallbacks(current_state_, frame[t].sel)
                   /\ Raiser(log).kind = "enter" =>
                         /\ current_state_ = Raiser(log).state
                         /\ has_initial_state_
                         /\ frame[t].op # "process" => current_state_ = frame[t].name
                         /\ frame[t].op = "process" =>
                               /\ \E i \in DOMAIN log : log[i].kind = "exit"
                               /\ \A i \in DOMAIN log :
                                     log[i].kind # "enter" => log[i].cur # current_state_
          /\ pc[t] \in {"idle", "lock"} => mutex_ # t
    /\ (trace # <<>> /\ \A t \in Threads : pc[t] \in {"idle", "lock"}) =>
          /\ mutex_ = NoThread
          /\ current_state_ = trace[Len(trace)].current
          /\ has_initial_state_ = trace[Len(trace)].init

\* after setInitialState("A"), the on-exit action of "A" raised during
\* process after the transition's action had run, leaving current at "A"; the
\* process call that followed ran from "A" and moved the machine to "B"
C32_Witness ==
    /\ Len(trace) = 3
    /\ trace[1].op = "setInitialState"
    /\ trace[1].ret = "ok"
    /\ trace[2].op = "process"
    /\ trace[2].ret = "exception"
    /\ Len(trace[2].log) = 2
    /\ trace[2].log[1].kind = "action"
    /\ trace[2].log[2].kind = "exit"
    /\ trace[2].current = "A"
    /\ trace[3].op = "process"
    /\ trace[3].ret = "true"
    /\ trace[3].current = "B"
    /\ mutex_ = NoThread

\* the on-enter action of "B" raised during setInitialState("B") on the
\* uninitialized machine; the machine is initialized at "B" and the process
\* call of the other thread that followed ran from "B"
C32_WitnessEnter ==
    /\ Len(trace) = 2
    /\ trace[1].op = "setInitialState"
    /\ trace[1].ret = "exception"
    /\ Raiser(trace[1].log).kind = "enter"
    /\ trace[1].current = "B"
    /\ trace[1].init
    /\ trace[2].op = "process"
    /\ trace[2].thread # trace[1].thread
    /\ trace[2].ret = "true"
    /\ trace[2].current = "A"

\* the on-enter action of "B" has raised during process, after the action and
\* the on-exit action of "A" ran and "B" became current
C32_WitnessProcessEnter ==
    \E t \in Threads :
        /\ pc[t] = "unlock"
        /\ frame[t].op = "process"
        /\ frame[t].ret = "exception"
        /\ Raiser(frame[t].log).kind = "enter"
        /\ current_state_ = "B"
        /\ trace # <<>>

====
